---- MODULE Spec2Model ----
(***************************************************************************)
(* A model of my-candle-core: the autograd tape (backprop.rs, op.rs), the  *)
(* variable cell (variable.rs, storage.rs), the dispatch of Storage calls  *)
(* (storage.rs, device.rs), the safetensors conversions (safetensors.rs),  *)
(* the parallel helpers and the integer arithmetic of the Cpu kernels      *)
(* (cpu/kernels.rs, op.rs), QMatMul::cpu_fwd (quantized/mod.rs), the arms  *)
(* of backward() for Cat, Narrow, Broadcast and Abs on tensors of several  *)
(* elements (backprop.rs), and VarMap::get of my-candle-nn called by       *)
(* several threads (var_builder.rs).  Each part has its own variables and  *)
(* its own specifications, and leaves the variables of the other parts     *)
(* unchanged.                                                              *)
(*                                                                         *)
(* Tape part: tensors are created one at a time, each op recording its     *)
(* inputs through BackpropOp; backward() is then run on one of them.       *)
(* Every tensor of the tape part has one element, so a gradient is the     *)
(* integer held by that element.  The ops of the tape part are the ones    *)
(* whose gradient does not read the forward values: Binary Add/Sub, Unary  *)
(* Neg/Gelu, Cmp, Reduce ArgMin/ArgMax, Affine, Copy, Conv1D/Conv2D,       *)
(* AvgPool2D/MaxPool2D, UpsampleNearest2D and Elu, and, in specifications  *)
(* of their own, CustomOp1/2/3 and ToDType.                                *)
(***************************************************************************)
EXTENDS Integers, Sequences, FiniteSets, TLC

\* Number of tensors created before backward() is called.
MaxTensors == 3

\* Largest first element of the tensors handed to Var::set.
MaxValue == 2

\* Number of Var::set calls of the variable-cell part.
MaxSets == 2

\* Largest length of a byte buffer that a loader hands to from_raw_buffer.
MaxBytes == 3

\* Largest n_threads handed to par_for_each and par_range, and number of
\* threads that call VarMap::get.
MaxThreads == 2

\* Largest bound of the range handed to par_range.
MaxUp == 2

\* Largest length of the vectors handed to vec_dot and vec_reduce_sum.
MaxLen == 2

\* Largest dim of the inputs and of the weight of QMatMul::cpu_fwd.
MaxDim == 2

\* Largest extent of a dim of the tensors of the gradient arms.
MaxExtent == 2

\* Largest number of inputs of a Cat node.
MaxArgs == 2

\* Tape part: the tensors created so far and the result of backward().
VARIABLES tensors, ret

\* Variable-cell part: the Var, the content of its storage, the tensor handed
\* to set(), the number of storages allocated, the result of the last set()
\* and the state before it, and the number of set() calls.
VARIABLES var, var_data, src, n_alloc, last_err, prev, calls

cell == <<var, var_data, src, n_alloc, last_err, prev, calls>>

\* Storage-dispatch part: the input storages of a call, the custom op handed
\* to custom_op1/2/3, and the outcome of the last Storage call.
VARIABLES stores, cop, res

disp == <<stores, cop, res>>

\* Safetensors part: the tensors at hand, a byte buffer, the outcome of
\* from_raw_buffer, the file written by save and the outcome of load.
VARIABLES tmap, buf, loaded, file, weights

st == <<tmap, buf, loaded, file, weights>>

\* Parallel-helpers part: the arguments of the call, the position of the
\* calling thread, the tasks spawned into the scope, the arguments func was
\* entered with, the number of invocations of func that ended, and the
\* arguments left to the calling thread.
VARIABLES pcall, pc, task, invoked, finished, todo

par == <<pcall, pc, task, invoked, finished, todo>>

\* Integer-arithmetic part: the U8 or U32 operands of a call with the
\* overflow checks of the build, and the outcome of the call.
VARIABLES ain, aout

arith == <<ain, aout>>

\* Quantized-matmul part: the input storage's dtype, the input layout and the
\* shape of the stored weight of a QMatMul, and the outcome of cpu_fwd.
VARIABLES qin, qout

qmm == <<qin, qout>>

\* Gradient-arm part: the node whose arm of backward() runs (its op, the
\* inputs of the op and the gradient of the node), and what the arm added to
\* the gradient of each input.
VARIABLES arm_in, arm_out

arm == <<arm_in, arm_out>>

\* VarMap part: the HashMap behind the Mutex of a VarMap, the thread that
\* holds the MutexGuard (0: none), the call of get() each thread is in, the
\* number of Vars created so far, and the insertions into the map in order.
VARIABLES tensor_data, mutex, getter, n_vars, inserted

vm == <<tensor_data, mutex, getter, n_vars, inserted>>

tape == <<tensors, ret>>

\* What the actions of each part leave alone.
off_tape == <<cell, disp, st, par, arith, qmm, arm, vm>>

off_cell == <<tape, disp, st, par, arith, qmm, arm, vm>>

off_disp == <<tape, cell, st, par, arith, qmm, arm, vm>>

off_st == <<tape, cell, disp, par, arith, qmm, arm, vm>>

off_par == <<tape, cell, disp, st, arith, qmm, arm, vm>>

off_arith == <<tape, cell, disp, st, par, qmm, arm, vm>>

off_qmm == <<tape, cell, disp, st, par, arith, arm, vm>>

off_arm == <<tape, cell, disp, st, par, arith, qmm, vm>>

off_vm == <<tape, cell, disp, st, par, arith, qmm, arm>>

vars == <<tape, cell, disp, st, par, arith, qmm, arm, vm>>

\* ------------------------------------------------------------------ tape

NoOp == "None"

\* UnaryOp kinds of the tape part (op.rs, enum UnaryOp).
UnaryKinds == {"Neg", "Gelu"}

\* BinaryOp kinds of the tape part (op.rs, enum BinaryOp).
BinaryKinds == {"Add", "Sub"}

\* ReduceOp kinds of the tape part that have no gradient (op.rs, enum ReduceOp).
ArgReduceKinds == {"ArgMin", "ArgMax"}

\* The values of Affine's mul that the model draws.
AffineMuls == {0, 2}

\* Ops for which backward() returns BackwardNotSupported.
UnsupportedKinds ==
    {"Conv1D", "Conv2D", "AvgPool2D", "MaxPool2D", "UpsampleNearest2D", "Gelu", "Elu"}

\* Ops that backward() matches with an empty arm.
NoGradKinds == {"Cmp", "ArgMin", "ArgMax"}

\* The op name carried by Error::BackwardNotSupported.
OpName(kind) ==
    CASE kind = "Conv1D" -> "conv1d"
      [] kind = "Conv2D" -> "conv2d"
      [] kind = "AvgPool2D" -> "avg-pool2d"
      [] kind = "MaxPool2D" -> "max-pool2d"
      [] kind = "UpsampleNearest2D" -> "upsample-nearest2d"
      [] kind = "Gelu" -> "gelu"
      [] kind = "Elu" -> "elu"
      [] OTHER -> "none"

\* TensorId of a tensor: its position in the creation order.
Ids == 1..Len(tensors)

\* A tensor is never taken for a variable.
is_variable_never(t) == FALSE

\* Tensor::is_variable
is_variable(t) == tensors[t].is_variable

\* Tensor::track_op: a tensor is tracked when it is a variable or has an op.
track_op(t) == tensors[t].is_variable \/ tensors[t].op # NoOp

\* BackpropOp::new1/new2: the op is recorded only if some argument is tracked.
BackpropOp_new(kind, args) ==
    IF \E i \in 1..Len(args) : track_op(args[i]) THEN kind ELSE NoOp

\* from_storage(storage, shape, op, is_variable): the new tensor handle.
from_storage(dtype, kind, args, mul, isvar) ==
    [is_variable |-> isvar,
     dtype |-> dtype,
     op |-> BackpropOp_new(kind, args),
     args |-> IF BackpropOp_new(kind, args) = NoOp THEN <<>> ELSE args,
     mul |-> IF BackpropOp_new(kind, args) = NoOp THEN 0 ELSE mul]

Building == ret.tag = "none" /\ Len(tensors) < MaxTensors

\* Var::new / Var::zeros / Var::ones / Var::from_tensor: a variable, no op.
Var_new ==
    /\ Building
    /\ tensors' = Append(tensors, from_storage("F32", NoOp, <<>>, 0, TRUE))
    /\ UNCHANGED <<ret, off_tape>>

\* A tensor handle with the variable flag and a tape entry: the result of
\* Add or Sub whose handle is flagged as a variable.
Var_with_op ==
    /\ Building
    /\ \E kind \in BinaryKinds, a \in Ids, b \in Ids :
          /\ tensors[a].dtype = "F32"
          /\ tensors[a].dtype = tensors[b].dtype
          /\ tensors' = Append(tensors, from_storage("F32", kind, <<a, b>>, 0, TRUE))
    /\ UNCHANGED <<ret, off_tape>>

\* Tensor::new / zeros / ones: a tensor that is no variable and has no op.
Tensor_new ==
    /\ Building
    /\ tensors' = Append(tensors, from_storage("F32", NoOp, <<>>, 0, FALSE))
    /\ UNCHANGED <<ret, off_tape>>

\* Tensor::neg / Tensor::gelu; unary_op! has no u8/u32 function for Neg.
Tensor_unary ==
    /\ Building
    /\ \E kind \in UnaryKinds, a \in Ids :
          /\ kind = "Neg" => tensors[a].dtype = "F32"
          /\ tensors' = Append(tensors,
                from_storage(tensors[a].dtype, kind, <<a>>, 0, FALSE))
    /\ UNCHANGED <<ret, off_tape>>

\* Tensor::add / Tensor::sub; Storage::binary_impl asks for the same dtype.
Tensor_binary ==
    /\ Building
    /\ \E kind \in BinaryKinds, a \in Ids, b \in Ids :
          /\ tensors[a].dtype = "F32"
          /\ tensors[a].dtype = tensors[b].dtype
          /\ tensors' = Append(tensors,
                from_storage(tensors[a].dtype, kind, <<a, b>>, 0, FALSE))
    /\ UNCHANGED <<ret, off_tape>>

\* The dtypes a tensor of the tape part is cast to.
CastDTypes == {"F32", "F64"}

\* Tensor::to_dtype(dtype) to another dtype than the tensor's.
Tensor_to_dtype ==
    /\ Building
    /\ \E dtype \in CastDTypes, a \in Ids :
          /\ dtype # tensors[a].dtype
          /\ tensors' = Append(tensors, from_storage(dtype, "ToDType", <<a>>, 0, FALSE))
    /\ UNCHANGED <<ret, off_tape>>

\* Tensor::cmp: a U8 mask; only the left operand is recorded in Op::Cmp.
Tensor_cmp ==
    /\ Building
    /\ \E a \in Ids :
          tensors' = Append(tensors, from_storage("U8", "Cmp", <<a>>, 0, FALSE))
    /\ UNCHANGED <<ret, off_tape>>

\* Tensor::argmin / Tensor::argmax: a U32 index.
Tensor_argreduce ==
    /\ Building
    /\ \E kind \in ArgReduceKinds, a \in Ids :
          tensors' = Append(tensors, from_storage("U32", kind, <<a>>, 0, FALSE))
    /\ UNCHANGED <<ret, off_tape>>

\* Tensor::affine(mul, add).
Tensor_affine ==
    /\ Building
    /\ \E m \in AffineMuls, a \in Ids :
          tensors' = Append(tensors,
                from_storage(tensors[a].dtype, "Affine", <<a>>, m, FALSE))
    /\ UNCHANGED <<ret, off_tape>>

\* Tensor::copy.
Tensor_copy ==
    /\ Building
    /\ \E a \in Ids :
          tensors' = Append(tensors,
                from_storage(tensors[a].dtype, "Copy", <<a>>, 0, FALSE))
    /\ UNCHANGED <<ret, off_tape>>

\* Tensor::conv1d / Tensor::conv2d; Storage::conv1d asks for the same dtype.
Tensor_conv ==
    /\ Building
    /\ \E kind \in {"Conv1D", "Conv2D"}, a \in Ids, k \in Ids :
          /\ tensors[a].dtype = "F32"
          /\ tensors[a].dtype = tensors[k].dtype
          /\ tensors' = Append(tensors,
                from_storage(tensors[a].dtype, kind, <<a, k>>, 0, FALSE))
    /\ UNCHANGED <<ret, off_tape>>

\* Tensor::avg_pool2d / max_pool2d / upsample_nearest2d / elu.
Tensor_pool ==
    /\ Building
    /\ \E kind \in {"AvgPool2D", "MaxPool2D", "UpsampleNearest2D", "Elu"}, a \in Ids :
          /\ tensors[a].dtype = "F32"
          /\ tensors' = Append(tensors,
                from_storage(tensors[a].dtype, kind, <<a>>, 0, FALSE))
    /\ UNCHANGED <<ret, off_tape>>

\* Op::CustomOp1 / CustomOp2 / CustomOp3.
CustomKinds == {"CustomOp1", "CustomOp2", "CustomOp3"}

\* What the bwd of a custom op with n inputs returns: Ok with Some or None for
\* each input, or the default Err(BackwardNotSupported { op: self.name() }).
CustomBwds(n) ==
    [tag : {"Ok"}, opt : [1..n -> {"Some", "None"}]]
    \cup {[tag |-> "Err", opt |-> <<>>]}

\* The tensor of Tensor::apply_op1/2/3: the op keeps the custom op object c
\* with its inputs; nothing is kept when no input is tracked.
from_custom(kind, args, c) ==
    from_storage("F32", kind, args, 0, FALSE)
    @@ [bwd |-> IF BackpropOp_new(kind, args) = NoOp
                THEN [tag |-> "Ok", opt |-> <<>>]
                ELSE c]

\* Tensor::apply_op1(c)
Tensor_apply_op1 ==
    /\ Building
    /\ \E a \in Ids, c \in CustomBwds(1) :
          tensors' = Append(tensors, from_custom("CustomOp1", <<a>>, c))
    /\ UNCHANGED <<ret, off_tape>>

\* Tensor::apply_op2(rhs, c)
Tensor_apply_op2 ==
    /\ Building
    /\ \E a \in Ids, b \in Ids, c \in CustomBwds(2) :
          tensors' = Append(tensors, from_custom("CustomOp2", <<a, b>>, c))
    /\ UNCHANGED <<ret, off_tape>>

\* Tensor::apply_op3(t2, t3, c)
Tensor_apply_op3 ==
    /\ Building
    /\ \E a \in Ids, b \in Ids, d \in Ids, c \in CustomBwds(3) :
          tensors' = Append(tensors, from_custom("CustomOp3", <<a, b, d>>, c))
    /\ UNCHANGED <<ret, off_tape>>

\* ---------------------------------------------------------- sorted_nodes

\* WalkedInputs without the `*mul == 0.` test: walk descends into every Affine.
WalkedInputs_ignoring_mul(node) == tensors[node].args

\* The inputs walk recurses into: none for Affine with mul == 0.
WalkedInputs(node) ==
    IF tensors[node].op = "Affine" /\ tensors[node].mul = 0
    THEN <<>>
    ELSE tensors[node].args

RECURSIVE walk(_, _, _)
RECURSIVE walk_inputs(_, _, _, _)

\* The successive `let (tg, nodes) = walk(t, nodes, already_seen); track_grad |= tg`.
walk_inputs(inputs, track_grad, nodes, already_seen) ==
    IF inputs = <<>>
    THEN [tg |-> track_grad, nodes |-> nodes, seen |-> already_seen,
          visits |-> <<>>]
    ELSE LET r == walk(Head(inputs), nodes, already_seen)
             rest == walk_inputs(Tail(inputs), track_grad \/ r.tg, r.nodes, r.seen)
         IN [rest EXCEPT !.visits = r.visits \o @]

\* A walk that never finds the node in already_seen.
already_seen_get_none(already_seen, node) == FALSE

\* `if let Some(&tg) = already_seen.get(&node.id())`
already_seen_get(already_seen, node) == node \in DOMAIN already_seen

\* A walk that pushes every node it visits.
push_always(nodes, node, track_grad) == Append(nodes, node)

\* `if track_grad { nodes.push(node) }`
push_tracked(nodes, node, track_grad) ==
    IF track_grad THEN Append(nodes, node) ELSE nodes

\* sorted_nodes::walk: depth first, a tracked node is pushed after its inputs.
\* `visits` lists the calls that went past the lookup in already_seen.
walk(node, nodes, already_seen) ==
    IF already_seen_get(already_seen, node)
    THEN [tg |-> already_seen[node], nodes |-> nodes, seen |-> already_seen,
          visits |-> <<>>]
    ELSE LET r == IF is_variable(node)
                  THEN [tg |-> TRUE, nodes |-> nodes, seen |-> already_seen,
                        visits |-> <<>>]
                  ELSE IF tensors[node].op # NoOp
                  THEN walk_inputs(WalkedInputs(node), FALSE, nodes, already_seen)
                  ELSE [tg |-> FALSE, nodes |-> nodes, seen |-> already_seen,
                        visits |-> <<>>]
         IN [tg |-> r.tg,
             nodes |-> push_tracked(r.nodes, node, r.tg),
             seen |-> (node :> r.tg) @@ r.seen,
             visits |-> <<node>> \o r.visits]

\* nodes.reverse()
Reverse(s) == [i \in 1..Len(s) |-> s[Len(s) + 1 - i]]

\* sorted_nodes without `nodes.reverse()`: the list in the order walk pushed it.
sorted_nodes_not_reversed(root) == walk(root, <<>>, <<>>).nodes

\* Tensor::sorted_nodes: the tracked nodes, the root first.
sorted_nodes(root) == Reverse(walk(root, <<>>, <<>>).nodes)

\* -------------------------------------------------------------- backward

\* or_insert that always inserts a zero gradient, dropping what was accumulated.
or_insert_always_vacant(grads, t) == (t :> 0) @@ grads

\* GradStore::or_insert: the entry of the tensor, a zero gradient if there is none.
or_insert(grads, t) == IF t \in DOMAIN grads THEN grads ELSE (t :> 0) @@ grads

\* `let sum_grad = grads.or_insert(t)?; *sum_grad = sum_grad.add(&g)?`
accumulate(grads, t, g) ==
    [or_insert(grads, t) EXCEPT ![t] = @ + g]

\* GradStore::remove
remove(grads, t) == [k \in DOMAIN grads \ {t} |-> grads[k]]

RECURSIVE accumulate_some(_, _, _, _)
\* The `if let Some(arg_grad) = .. { or_insert(arg); sum_grad.add(&arg_grad) }`
\* of the custom op arms, one input after the other; a bwd of the model
\* hands the gradient of the result to the inputs it answers Some for.
accumulate_some(args, opt, grad, grads) ==
    IF args = <<>>
    THEN grads
    ELSE accumulate_some(Tail(args), Tail(opt), grad,
                         IF Head(opt) = "Some"
                         THEN accumulate(grads, Head(args), grad)
                         ELSE grads)

\* The arm of `match op` for a supported op: the gradient map after it.
backward_op(node, grad, grads) ==
    LET kind == tensors[node].op
        args == tensors[node].args
    IN CASE kind = "Add" -> accumulate(accumulate(grads, args[1], grad), args[2], grad)
         [] kind = "Sub" -> accumulate(accumulate(grads, args[1], grad), args[2], 0 - grad)
         [] kind = "Neg" -> accumulate(grads, args[1], 0 - grad)
         [] kind = "Copy" -> accumulate(grads, args[1], grad)
         [] kind = "ToDType" -> accumulate(grads, args[1], grad)
         [] kind = "Affine" -> accumulate(grads, args[1], grad * tensors[node].mul)
         [] kind \in CustomKinds -> accumulate_some(args, tensors[node].bwd.opt, grad, grads)
         [] OTHER -> grads

\* The error an arm of `match op` returns through `?` from a call it makes,
\* "none" when every call of the arm returns Ok.
arm_error(node) ==
    CASE tensors[node].op \in CustomKinds /\ tensors[node].bwd.tag = "Err" ->
            [err |-> "BackwardNotSupported", op |-> "custom-op"]
      [] /\ tensors[node].op = "ToDType"
         /\ tensors[tensors[node].args[1]].dtype # tensors[node].dtype ->
            [err |-> "DTypeMismatchBinaryOp", op |-> "add"]
      [] OTHER -> [err |-> "none", op |-> "none"]

RECURSIVE backward_loop(_, _, _)

\* The `for node in sorted_nodes.iter()` loop of backward(); `processed` lists
\* the nodes whose gradient the loop has removed so far.
backward_loop(nodes, grads, processed) ==
    IF nodes = <<>>
    THEN [tag |-> "Ok", grads |-> grads, op |-> "none", err |-> "none",
          processed |-> processed]
    ELSE LET node == Head(nodes)
         IN IF is_variable(node)
            THEN backward_loop(Tail(nodes), grads, processed)
            ELSE IF node \notin DOMAIN grads
            THEN [tag |-> "Panic", grads |-> <<>>, op |-> "none", err |-> "none",
                  processed |-> processed]
            ELSE IF tensors[node].op \in UnsupportedKinds
            THEN [tag |-> "Err", grads |-> <<>>, op |-> OpName(tensors[node].op),
                  err |-> "BackwardNotSupported",
                  processed |-> Append(processed, node)]
            ELSE IF arm_error(node).err # "none"
            THEN [tag |-> "Err", grads |-> <<>>, op |-> arm_error(node).op,
                  err |-> arm_error(node).err,
                  processed |-> Append(processed, node)]
            ELSE backward_loop(Tail(nodes),
                               backward_op(node, grads[node], remove(grads, node)),
                               Append(processed, node))

\* backward() that starts with a zero gradient for every variable of the tape.
backward_all_variables(root) ==
    backward_loop(sorted_nodes(root),
                  (root :> 1) @@ [v \in {t \in Ids : is_variable(t)} |-> 0], <<>>)

\* Tensor::backward: Ok(grads), Err(BackwardNotSupported{op}), or the panic of
\* `grads.remove(node).unwrap()`.
backward(root) == backward_loop(sorted_nodes(root), (root :> 1), <<>>)

\* A call of backward() on one of the tensors; ret keeps the result together
\* with the root and the node list the call iterated.
Backward ==
    /\ ret.tag = "none"
    /\ \E root \in Ids :
          ret' = backward(root) @@ [root |-> root, nodes |-> sorted_nodes(root),
                                    visits |-> walk(root, <<>>, <<>>).visits]
    /\ UNCHANGED <<tensors, off_tape>>

\* The tape part before any tensor is created.
TapeIdle ==
    /\ tensors = <<>>
    /\ ret = [tag |-> "none", grads |-> <<>>, op |-> "none", err |-> "none",
              processed |-> <<>>, root |-> 0, nodes |-> <<>>, visits |-> <<>>]

\* The variable-cell part before any variable is created.
CellIdle ==
    /\ var = [id |-> 0]
    /\ var_data = <<>>
    /\ src = [kind |-> "none"]
    /\ n_alloc = 0
    /\ last_err = "none"
    /\ prev = [kind |-> "none"]
    /\ calls = 0

\* The dispatch part before any storage exists.
DispIdle ==
    /\ stores = <<>>
    /\ cop = [name |-> "none"]
    /\ res = [call |-> "none"]

\* The safetensors part before any tensor is at hand.
StIdle ==
    /\ tmap = <<>>
    /\ buf = [from |-> "none"]
    /\ loaded = [tag |-> "none"]
    /\ file = [saved |-> FALSE]
    /\ weights = [tag |-> "none"]

\* The parallel-helpers part before the call.
ParIdle ==
    /\ pcall = [fn |-> "none", lo |-> 0, up |-> 0, n_threads |-> 0]
    /\ pc = "idle"
    /\ task = <<>>
    /\ invoked = <<>>
    /\ finished = 0
    /\ todo = <<>>

\* The integer-arithmetic part without operands.
ArithIdle ==
    /\ ain = [dtype |-> "none"]
    /\ aout = [fn |-> "none"]

\* The quantized-matmul part without an input.
QIdle ==
    /\ qin = [dtype |-> "none"]
    /\ qout = [tag |-> "none"]

\* The gradient-arm part without a node.
ArmIdle ==
    /\ arm_in = [op |-> "none"]
    /\ arm_out = <<>>

\* The VarMap part before any call of get(): VarMap::new().
VarMapIdle ==
    /\ tensor_data = <<>>
    /\ mutex = 0
    /\ getter = [t \in 1..MaxThreads |-> [pc |-> "idle"]]
    /\ n_vars = 0
    /\ inserted = <<>>

Init == TapeIdle /\ CellIdle /\ DispIdle /\ StIdle /\ ParIdle /\ ArithIdle /\ QIdle /\ ArmIdle /\ VarMapIdle

Next ==
    \/ Var_new
    \/ Tensor_new
    \/ Tensor_unary
    \/ Tensor_binary
    \/ Tensor_cmp
    \/ Tensor_argreduce
    \/ Tensor_affine
    \/ Tensor_copy
    \/ Tensor_conv
    \/ Tensor_pool
    \/ Backward

Spec == Init /\ [][Next]_vars

\* The tape part with custom ops: variables, constants, Add/Sub and the
\* tensors of apply_op1/2/3.
NextCustom ==
    \/ Var_new
    \/ Tensor_new
    \/ Tensor_binary
    \/ Tensor_apply_op1
    \/ Tensor_apply_op2
    \/ Tensor_apply_op3
    \/ Backward

SpecCustom == Init /\ [][NextCustom]_vars

\* The tape part with casts: variables, constants, Add/Sub, Copy and the
\* tensors of to_dtype.
NextCast ==
    \/ Var_new
    \/ Tensor_new
    \/ Tensor_binary
    \/ Tensor_copy
    \/ Tensor_to_dtype
    \/ Backward

SpecCast == Init /\ [][NextCast]_vars

\* The tape part with variables that have an op: variables, constants,
\* Add/Sub, Copy and the flagged results of Add/Sub.
NextLeaf ==
    \/ Var_new
    \/ Tensor_new
    \/ Tensor_binary
    \/ Tensor_copy
    \/ Var_with_op
    \/ Backward

SpecLeaf == Init /\ [][NextLeaf]_vars

\* --------------------------------------------------------- variable cell

\* The contents of a source storage: four consecutive values from b on, so
\* that the order of the elements shows in a copy.
SrcContents == {[i \in 1..4 |-> b + i - 1] : b \in 1..MaxValue}

DTypes == {"F32", "U8"}

Devices == {"Cpu", "Cuda"}

\* The shapes a variable of the model is created with.
VarShapes == {<<4>>, <<2, 2>>}

RECURSIVE elem_count(_)
\* Shape::elem_count: the product of the dims.
elem_count(shape) ==
    IF shape = <<>> THEN 1 ELSE Head(shape) * elem_count(Tail(shape))

\* Shape::stride_contiguous: the row-major strides of a shape.
stride_contiguous(shape) ==
    [i \in 1..Len(shape) |-> elem_count(SubSeq(shape, i + 1, Len(shape)))]

\* Layout::contiguous(shape)
contiguous(shape) ==
    [shape |-> shape, stride |-> stride_contiguous(shape), start_offset |-> 0]

\* Layout::is_contiguous: row-major strides and no offset.
is_contiguous(l) == l.stride = stride_contiguous(l.shape) /\ l.start_offset = 0

\* The layouts of the tensors handed to set(): the contiguous ones and the
\* views narrow, transpose and broadcast_as give over a storage of 4 elements.
SrcLayouts ==
    {contiguous(<<4>>),
     contiguous(<<2, 2>>),
     [shape |-> <<2, 2>>, stride |-> <<1, 2>>, start_offset |-> 0],
     [shape |-> <<2, 2>>, stride |-> <<0, 1>>, start_offset |-> 2],
     [shape |-> <<4>>, stride |-> <<0>>, start_offset |-> 3],
     [shape |-> <<2>>, stride |-> <<1>>, start_offset |-> 2],
     [shape |-> <<2>>, stride |-> <<2>>, start_offset |-> 1]}

RECURSIVE strided_index(_, _, _)
\* The storage index of the k-th element (from 0) in logical order, the dims
\* being resolved from the last (d) to the first.
strided_index(l, k, d) ==
    IF d = 0
    THEN l.start_offset
    ELSE (k % l.shape[d]) * l.stride[d] + strided_index(l, k \div l.shape[d], d - 1)

\* The elements a layout addresses in a storage, in logical order.
logical_elements(data, l) ==
    [k \in 1..elem_count(l.shape) |-> data[strided_index(l, k - 1, Len(l.shape)) + 1]]

\* Tensor::same_storage: the two handles share one storage object.
same_storage(v, s) == v.storage = s.storage

\* The content of the storage the tensor handed to set() reads.
SrcData == IF same_storage(var, src) THEN var_data ELSE src.data

\* CpuStorage / CudaStorage copy_strided_src: the source elements in logical
\* order written to dst from dst_offset on; the dtypes have to agree.
backend_copy_strided_src(s_data, s, v, dst, dst_offset) ==
    IF s.dtype # v.dtype
    THEN [err |-> "DTypeMismatchBinaryOp", data |-> dst]
    ELSE LET elems == logical_elements(s_data, s.layout)
         IN [err |-> "Ok",
             data |-> [i \in 1..Len(dst) |->
                          IF i > dst_offset /\ i <= dst_offset + Len(elems)
                          THEN elems[i - dst_offset]
                          ELSE dst[i]]]

\* copy_strided_src called with source and destination swapped: dst is only read.
Storage_copy_strided_src_swapped(s_data, s, v, dst, dst_offset) ==
    IF s.device = v.device
    THEN [err |-> backend_copy_strided_src(dst, v, s, s_data, dst_offset).err, data |-> dst]
    ELSE [err |-> "DeviceMismatchBinaryOp{copy}", data |-> dst]

\* Storage::copy_strided_src: (Cpu, Cpu) and (Cuda, Cuda) go to the backend,
\* any other pair is a device mismatch.
Storage_copy_strided_src(s_data, s, v, dst, dst_offset) ==
    IF s.device = v.device
    THEN backend_copy_strided_src(s_data, s, v, dst, dst_offset)
    ELSE [err |-> "DeviceMismatchBinaryOp{copy}", data |-> dst]

\* Var::set without the same_storage test.
set_without_storage_check(v, dst, s, s_data) ==
    IF ~is_contiguous(v.layout)
    THEN [err |-> "CannotSetVar", data |-> dst]
    ELSE IF v.layout.shape # s.layout.shape
    THEN [err |-> "ShapeMismatchBinaryOp{set}", data |-> dst]
    ELSE Storage_copy_strided_src(s_data, s, v, dst, v.layout.start_offset)

\* Var::set: the error (or "Ok") and the content of the variable's storage.
set(v, dst, s, s_data) ==
    IF same_storage(v, s)
    THEN [err |-> "CannotSetVar", data |-> dst]
    ELSE IF ~is_contiguous(v.layout)
    THEN [err |-> "CannotSetVar", data |-> dst]
    ELSE IF v.layout.shape # s.layout.shape
    THEN [err |-> "ShapeMismatchBinaryOp{set}", data |-> dst]
    ELSE Storage_copy_strided_src(s_data, s, v, dst, v.layout.start_offset)

\* The state a set() call starts from.
Snapshot == [kind |-> "state", var |-> var, data |-> var_data, n_alloc |-> n_alloc]

\* Tensor::from_vec followed by a view op: a tensor over a storage of its own.
Tensor_from_vec ==
    /\ var.id # 0
    /\ n_alloc <= MaxSets
    /\ \E d \in SrcContents, l \in SrcLayouts, dt \in DTypes, dev \in Devices :
          src' = [kind |-> "tensor", storage |-> n_alloc + 1, data |-> d,
                  layout |-> l, dtype |-> dt, device |-> dev]
    /\ n_alloc' = n_alloc + 1
    /\ last_err' = "none"
    /\ prev' = [kind |-> "none"]
    /\ UNCHANGED <<var, var_data, calls, off_cell>>

\* Var::as_tensor followed by a view op (narrow, t, broadcast_as, reshape): a
\* tensor that shares the variable's storage.
Var_as_tensor ==
    /\ var.id # 0
    /\ \E l \in SrcLayouts :
          src' = [kind |-> "tensor", storage |-> var.storage, data |-> <<>>,
                  layout |-> l, dtype |-> var.dtype, device |-> var.device]
    /\ last_err' = "none"
    /\ prev' = [kind |-> "none"]
    /\ UNCHANGED <<var, var_data, n_alloc, calls, off_cell>>

\* Var::set(src): only the content of the variable's storage may change.
Var_set ==
    /\ src.kind = "tensor"
    /\ calls < MaxSets
    /\ var_data' = set(var, var_data, src, SrcData).data
    /\ last_err' = set(var, var_data, src, SrcData).err
    /\ prev' = Snapshot
    /\ calls' = calls + 1
    /\ UNCHANGED <<var, src, n_alloc, off_cell>>

\* The state after Var::zeros: a contiguous variable over its own storage.
InitVar ==
    /\ TapeIdle
    /\ VarMapIdle
    /\ ArmIdle
    /\ QIdle
    /\ ArithIdle
    /\ ParIdle
    /\ DispIdle
    /\ StIdle
    /\ \E shape \in VarShapes, dev \in Devices :
          var = [id |-> 1, storage |-> 1, layout |-> contiguous(shape),
                 is_variable |-> TRUE, op |-> NoOp, dtype |-> "F32", device |-> dev]
    /\ var_data = [i \in 1..4 |-> 0]
    /\ src = [kind |-> "none"]
    /\ n_alloc = 1
    /\ last_err = "none"
    /\ prev = [kind |-> "none"]
    /\ calls = 0

NextVar ==
    \/ Tensor_from_vec
    \/ Var_as_tensor
    \/ Var_set

SpecVar == InitVar /\ [][NextVar]_vars

\* ------------------------------------------------------ storage dispatch

\* The dtypes of the storages handed to the Storage calls.
StorageDTypes == {"F32", "U8", "U32"}

\* The number of elements of a storage of the dispatch part.
StorageLens == {0, 1}

\* enum Storage: the Cpu arm, and the Cuda arm on one of two gpus.
Storages ==
    [backend : {"Cpu"}, gpu_id : {0}, dtype : StorageDTypes, len : StorageLens]
    \cup [backend : {"Cuda"}, gpu_id : {0, 1}, dtype : StorageDTypes, len : StorageLens]

NoStorage == [backend |-> "none"]

\* Storage::device().location(): DeviceLocation::Cpu or Cuda { gpu_id }.
location(s) == IF s.backend = "Cpu" THEN <<"Cpu">> ELSE <<"Cuda", s.gpu_id>>

\* same_device that compares the arm of the enum only, not the gpu_id.
same_device_ignoring_gpu_id(lhs, rhs) == lhs.backend = rhs.backend

\* same_device that answers Ok(()) for every pair of storages.
same_device_unchecked(lhs, rhs) == TRUE

\* Storage::same_device: Ok(()) when the two locations are equal.
same_device(lhs, rhs) == location(lhs) = location(rhs)

\* Storage::same_dtype: Ok(()) when the two dtypes are equal.
same_dtype(lhs, rhs) == lhs.dtype = rhs.dtype

\* An Err(..) of a Storage call: no storage is returned.
Failure(err, op) ==
    [tag |-> "Err", err |-> err, op |-> op, out |-> NoStorage, fwd |-> "none"]

\* `let storage = lhs.<op>(rhs, ..)?; Ok(Self::Cpu(storage))` and the same for
\* Cuda: the backend's storage wrapped in the arm of the inputs, or the
\* backend's error.
wrap_backend(lhs, op, out_dtype, backend_ok) ==
    IF backend_ok
    THEN [tag |-> "Ok", err |-> "none", op |-> op, fwd |-> "none",
          out |-> [backend |-> lhs.backend, gpu_id |-> lhs.gpu_id,
                   dtype |-> out_dtype, len |-> lhs.len]]
    ELSE Failure("BackendError", op)

\* The `match (self, rhs)` of the two-input calls.
match_backends(lhs, rhs, op, out_dtype, backend_ok) ==
    IF lhs.backend = "Cpu" /\ rhs.backend = "Cpu"
    THEN wrap_backend(lhs, op, out_dtype, backend_ok)
    ELSE IF lhs.backend = "Cuda" /\ rhs.backend = "Cuda"
    THEN wrap_backend(lhs, op, out_dtype, backend_ok)
    ELSE Failure("DeviceMismatchBinaryOp", op)

\* binary_impl, cmp, matmul, conv1d, conv2d: same_device(..)?, same_dtype(..)?
\* and the match.
checked_device_dtype(lhs, rhs, op, out_dtype, backend_ok) ==
    IF ~same_device(lhs, rhs)
    THEN Failure("DeviceMismatchBinaryOp", op)
    ELSE IF ~same_dtype(lhs, rhs)
    THEN Failure("DTypeMismatchBinaryOp", op)
    ELSE match_backends(lhs, rhs, op, out_dtype, backend_ok)

\* index_select: same_device(..)? and the match; the dtypes are not compared.
checked_device(lhs, rhs, op, out_dtype, backend_ok) ==
    IF ~same_device(lhs, rhs)
    THEN Failure("DeviceMismatchBinaryOp", op)
    ELSE match_backends(lhs, rhs, op, out_dtype, backend_ok)

\* The storages of a call are at hand and no call has been made on them.
Ready == stores # <<>> /\ res.call = "none"

\* The names of BinaryOpT::NAME.
BinaryNames == {"add", "sub", "mul", "div"}

\* The names of UnaryOpT::NAME: the ops of unary_op!, Gelu and Relu.
MacroUnaryNames == {"exp", "log", "sin", "cos", "abs", "neg", "recip", "sqr", "sqrt"}

UnaryNames == MacroUnaryNames \cup {"gelu", "relu"}

\* B::u8 and B::u32 of unary_op! are todo!(); every other function of
\* UnaryOpT returns a value.
unary_fn(name, dtype) ==
    IF name \in MacroUnaryNames /\ dtype \in {"U8", "U32"} THEN "todo" ELSE "value"

\* The panic of todo!().
Todo(op) ==
    [tag |-> "Panic", err |-> "not yet implemented", op |-> op, out |-> NoStorage,
     fwd |-> "none"]

\* Storage::unary_impl::<B>(layout): the Cpu backend applies the function of
\* B for the dtype to every element, the Cuda backend launches B::KERNEL.
Storage_unary_impl ==
    /\ Ready
    /\ \E name \in UnaryNames, backend_ok \in BOOLEAN :
          res' = (IF /\ stores[1].backend = "Cpu"
                     /\ stores[1].len > 0
                     /\ unary_fn(name, stores[1].dtype) = "todo"
                  THEN Todo(name)
                  ELSE wrap_backend(stores[1], name, stores[1].dtype, backend_ok))
                 @@ [call |-> "unary_impl"]
    /\ UNCHANGED <<stores, cop, off_disp>>

\* Storage::binary_impl::<B>(rhs, ..)
Storage_binary_impl ==
    /\ Ready
    /\ \E name \in BinaryNames, backend_ok \in BOOLEAN :
          res' = checked_device_dtype(stores[1], stores[2], name,
                                      stores[1].dtype, backend_ok)
                 @@ [call |-> "binary_impl"]
    /\ UNCHANGED <<stores, cop, off_disp>>

\* Storage::cmp(op, rhs, ..): a U8 mask.
Storage_cmp ==
    /\ Ready
    /\ \E backend_ok \in BOOLEAN :
          res' = checked_device_dtype(stores[1], stores[2], "cmp", "U8", backend_ok)
                 @@ [call |-> "cmp"]
    /\ UNCHANGED <<stores, cop, off_disp>>

\* Storage::matmul(rhs, bmnk, ..)
Storage_matmul ==
    /\ Ready
    /\ \E backend_ok \in BOOLEAN :
          res' = checked_device_dtype(stores[1], stores[2], "matmul",
                                      stores[1].dtype, backend_ok)
                 @@ [call |-> "matmul"]
    /\ UNCHANGED <<stores, cop, off_disp>>

\* Storage::conv1d(l, kernel, ..)
Storage_conv1d ==
    /\ Ready
    /\ \E backend_ok \in BOOLEAN :
          res' = checked_device_dtype(stores[1], stores[2], "conv1d",
                                      stores[1].dtype, backend_ok)
                 @@ [call |-> "conv1d"]
    /\ UNCHANGED <<stores, cop, off_disp>>

\* Storage::conv2d(l, kernel, ..)
Storage_conv2d ==
    /\ Ready
    /\ \E backend_ok \in BOOLEAN :
          res' = checked_device_dtype(stores[1], stores[2], "conv2d",
                                      stores[1].dtype, backend_ok)
                 @@ [call |-> "conv2d"]
    /\ UNCHANGED <<stores, cop, off_disp>>

\* Storage::index_select(rhs, ..)
Storage_index_select ==
    /\ Ready
    /\ \E backend_ok \in BOOLEAN :
          res' = checked_device(stores[1], stores[2], "index-select",
                                stores[1].dtype, backend_ok)
                 @@ [call |-> "index_select"]
    /\ UNCHANGED <<stores, cop, off_disp>>

\* The custom ops handed to custom_op1/2/3: a name, and whether the op
\* overrides the default cuda_fwd.
CustomOps == [name : {"op-a", "op-b"}, has_cuda_fwd : BOOLEAN]

\* CustomOp::cpu_fwd: the code of the op, which returns a storage or an error.
cpu_fwd(c, s1, fwd_ok) ==
    IF fwd_ok
    THEN [tag |-> "Ok", err |-> "none", op |-> c.name, fwd |-> "cpu_fwd",
          out |-> [backend |-> "Cpu", gpu_id |-> 0, dtype |-> s1.dtype, len |-> s1.len]]
    ELSE [tag |-> "Err", err |-> "Msg", op |-> c.name, fwd |-> "cpu_fwd",
          out |-> NoStorage]

\* cuda_fwd dispatched to cpu_fwd whatever the op overrides.
cuda_fwd_as_cpu_fwd(c, s1, fwd_ok) == cpu_fwd(c, s1, fwd_ok)

\* CustomOp::cuda_fwd: the code of the op if it overrides the method, else the
\* default Err(Error::Cuda("no cuda implementation for {name}")).
cuda_fwd(c, s1, fwd_ok) ==
    IF ~c.has_cuda_fwd
    THEN [tag |-> "Err", err |-> "Cuda", op |-> c.name, fwd |-> "cuda_fwd",
          out |-> NoStorage]
    ELSE IF fwd_ok
    THEN [tag |-> "Ok", err |-> "none", op |-> c.name, fwd |-> "cuda_fwd",
          out |-> [backend |-> "Cuda", gpu_id |-> s1.gpu_id, dtype |-> s1.dtype,
                   len |-> s1.len]]
    ELSE [tag |-> "Err", err |-> "Cuda", op |-> c.name, fwd |-> "cuda_fwd",
          out |-> NoStorage]

\* The `_ => unreachable!()` arm.
Unreachable(op) ==
    [tag |-> "Panic", err |-> "unreachable", op |-> op, out |-> NoStorage, fwd |-> "none"]

\* Storage::custom_op1: `match self`.
custom_op1(s1, c, fwd_ok) ==
    IF s1.backend = "Cpu" THEN cpu_fwd(c, s1, fwd_ok) ELSE cuda_fwd(c, s1, fwd_ok)

\* Storage::custom_op2: same_device(t2, c.name())? and `match (self, t2)`.
custom_op2(s1, s2, c, fwd_ok) ==
    IF ~same_device(s1, s2)
    THEN Failure("DeviceMismatchBinaryOp", c.name)
    ELSE IF s1.backend = "Cpu" /\ s2.backend = "Cpu"
    THEN cpu_fwd(c, s1, fwd_ok)
    ELSE IF s1.backend = "Cuda" /\ s2.backend = "Cuda"
    THEN cuda_fwd(c, s1, fwd_ok)
    ELSE Unreachable(c.name)

\* Storage::custom_op3: same_device(t2, ..)?, same_device(t3, ..)? and
\* `match (self, t2, t3)`.
custom_op3(s1, s2, s3, c, fwd_ok) ==
    IF ~same_device(s1, s2)
    THEN Failure("DeviceMismatchBinaryOp", c.name)
    ELSE IF ~same_device(s1, s3)
    THEN Failure("DeviceMismatchBinaryOp", c.name)
    ELSE IF s1.backend = "Cpu" /\ s2.backend = "Cpu" /\ s3.backend = "Cpu"
    THEN cpu_fwd(c, s1, fwd_ok)
    ELSE IF s1.backend = "Cuda" /\ s2.backend = "Cuda" /\ s3.backend = "Cuda"
    THEN cuda_fwd(c, s1, fwd_ok)
    ELSE Unreachable(c.name)

\* A call of Storage::custom_op1 on the first storage.
Storage_custom_op1 ==
    /\ Ready
    /\ \E fwd_ok \in BOOLEAN :
          res' = custom_op1(stores[1], cop, fwd_ok) @@ [call |-> "custom_op1"]
    /\ UNCHANGED <<stores, cop, off_disp>>

\* A call of Storage::custom_op2 on the first two storages.
Storage_custom_op2 ==
    /\ Ready
    /\ \E fwd_ok \in BOOLEAN :
          res' = custom_op2(stores[1], stores[2], cop, fwd_ok) @@ [call |-> "custom_op2"]
    /\ UNCHANGED <<stores, cop, off_disp>>

\* A call of Storage::custom_op3 on the three storages.
Storage_custom_op3 ==
    /\ Ready
    /\ \E fwd_ok \in BOOLEAN :
          res' = custom_op3(stores[1], stores[2], stores[3], cop, fwd_ok)
                 @@ [call |-> "custom_op3"]
    /\ UNCHANGED <<stores, cop, off_disp>>

\* Storage::gather: same_device(indexes, "index-add")? and `match (self,
\* indexes)`, whose last arm is unreachable!().
gather(s1, indexes, backend_ok) ==
    IF ~same_device(s1, indexes)
    THEN Failure("DeviceMismatchBinaryOp", "index-add")
    ELSE IF s1.backend = "Cpu" /\ indexes.backend = "Cpu"
    THEN wrap_backend(s1, "gather", s1.dtype, backend_ok)
    ELSE IF s1.backend = "Cuda" /\ indexes.backend = "Cuda"
    THEN wrap_backend(s1, "gather", s1.dtype, backend_ok)
    ELSE Unreachable("gather")

\* Storage::scatter_add and Storage::index_add (op): same_device(indexes,
\* op)?, same_device(source, op)? and `match (self, indexes, source)`, whose
\* last arm is unreachable!().
scatter_add(s1, indexes, source, op, backend_ok) ==
    IF ~same_device(s1, indexes)
    THEN Failure("DeviceMismatchBinaryOp", op)
    ELSE IF ~same_device(s1, source)
    THEN Failure("DeviceMismatchBinaryOp", op)
    ELSE IF s1.backend = "Cpu" /\ indexes.backend = "Cpu" /\ source.backend = "Cpu"
    THEN wrap_backend(s1, op, s1.dtype, backend_ok)
    ELSE IF s1.backend = "Cuda" /\ indexes.backend = "Cuda" /\ source.backend = "Cuda"
    THEN wrap_backend(s1, op, s1.dtype, backend_ok)
    ELSE Unreachable(op)

\* Storage::gather(l, indexes, indexes_l, d) on the first two storages.
Storage_gather ==
    /\ Ready
    /\ \E backend_ok \in BOOLEAN :
          res' = gather(stores[1], stores[2], backend_ok) @@ [call |-> "gather"]
    /\ UNCHANGED <<stores, cop, off_disp>>

\* Storage::scatter_add(l, indexes, indexes_l, source, source_l, d)
Storage_scatter_add ==
    /\ Ready
    /\ \E backend_ok \in BOOLEAN :
          res' = scatter_add(stores[1], stores[2], stores[3], "scatter-add", backend_ok)
                 @@ [call |-> "scatter_add"]
    /\ UNCHANGED <<stores, cop, off_disp>>

\* Storage::index_add(l, indexes, indexes_l, source, source_l, d)
Storage_index_add ==
    /\ Ready
    /\ \E backend_ok \in BOOLEAN :
          res' = scatter_add(stores[1], stores[2], stores[3], "index-add", backend_ok)
                 @@ [call |-> "index_add"]
    /\ UNCHANGED <<stores, cop, off_disp>>

\* The state before a Storage call: three storages and a custom op.
InitStorage ==
    /\ TapeIdle
    /\ VarMapIdle
    /\ ArmIdle
    /\ QIdle
    /\ ArithIdle
    /\ ParIdle
    /\ CellIdle
    /\ StIdle
    /\ stores \in [1..3 -> Storages]
    /\ cop \in CustomOps
    /\ res = [call |-> "none"]

NextStorage ==
    \/ Storage_unary_impl
    \/ Storage_binary_impl
    \/ Storage_cmp
    \/ Storage_matmul
    \/ Storage_conv1d
    \/ Storage_conv2d
    \/ Storage_index_select
    \/ Storage_custom_op1
    \/ Storage_custom_op2
    \/ Storage_custom_op3
    \/ Storage_gather
    \/ Storage_scatter_add
    \/ Storage_index_add

SpecStorage == InitStorage /\ [][NextStorage]_vars

\* ----------------------------------------------------------- safetensors

\* enum DType.
AllDTypes == {"U8", "U32", "BF16", "F16", "F32", "F64"}

\* DType::size_in_bytes
size_in_bytes(dtype) ==
    CASE dtype = "U8" -> 1
      [] dtype = "U32" -> 4
      [] dtype = "BF16" -> 2
      [] dtype = "F16" -> 2
      [] dtype = "F32" -> 4
      [] dtype = "F64" -> 8

\* impl From<DType> for st::Dtype
st_from(dtype) ==
    CASE dtype = "U8" -> "st::U8"
      [] dtype = "U32" -> "st::U32"
      [] dtype = "BF16" -> "st::BF16"
      [] dtype = "F16" -> "st::F16"
      [] dtype = "F32" -> "st::F32"
      [] dtype = "F64" -> "st::F64"

\* The values of an element: an element of n bytes is held as its n bytes,
\* the most significant first.  Three values for each size: zero, one, and the
\* value whose bytes are 1, 2, .., n.
ElemValues(n) ==
    {[i \in 1..n |-> 0],
     [i \in 1..n |-> IF i = n THEN 1 ELSE 0],
     [i \in 1..n |-> i]}

\* The bytes of an element in memory written with the most significant first.
to_ne_bytes_big_endian(e) == e

\* The bytes of an element in memory (little endian), and the element that a
\* run of size bytes in memory holds.
to_ne_bytes(e) == Reverse(e)

from_ne_bytes(bs) == Reverse(bs)

RECURSIVE flat_bytes(_)
\* The memory of a Vec<T>: the bytes of its elements one after the other.
flat_bytes(vs) ==
    IF vs = <<>> THEN <<>> ELSE to_ne_bytes(Head(vs)) \o flat_bytes(Tail(vs))

\* convert_back_::<T>(vs): the Vec<T> taken as a Vec<u8> of len * size bytes.
convert_back_(vs) == flat_bytes(vs)

\* convert_back(tensor): flatten_all, to_vec1, and convert_back_ for the dtype.
convert_back(t) == convert_back_(t.elems)

\* slice::from_raw_parts(ptr as *const T, elem_count) and the memory of the
\* Vec<T> after copy_nonoverlapping: the first elem_count elements of the bytes.
typed_elements(bytes, size, n) ==
    [i \in 1..n |-> from_ne_bytes(SubSeq(bytes, (i - 1) * size + 1, i * size))]

\* Tensor::from_slice(data, shape, device): the buffer has to hold exactly the
\* elements of the shape.
from_slice(elems, dtype, shape, path) ==
    IF Len(elems) # elem_count(shape)
    THEN [tag |-> "Err", err |-> "ShapeMismatch", path |-> path]
    ELSE [tag |-> "Ok", err |-> "none", path |-> path,
          tensor |-> [dtype |-> dtype, shape |-> shape, elems |-> elems]]

\* What a write past the end of the Vec<T>'s allocation can do: destroy the
\* process, or go unnoticed.
out_of_bounds_write(done) == {[tag |-> "Crash", err |-> "none", path |-> "copied"], done}

\* convert_slice::<T>(data, shape, device): the outcomes of the call.  The
\* aligned branch reads the buffer in place; the other allocates a Vec<T> of
\* elem_count elements and copies data.len() bytes into it.
convert_slice(buffer, dtype, shape) ==
    LET size == size_in_bytes(dtype)
        count == Len(buffer.bytes) \div size
        elems == typed_elements(buffer.bytes, size, count)
    IN IF buffer.addr % size = 0
       THEN {from_slice(elems, dtype, shape, "in_place")}
       ELSE IF Len(buffer.bytes) > count * size
       THEN out_of_bounds_write(from_slice(elems, dtype, shape, "copied"))
       ELSE {from_slice(elems, dtype, shape, "copied")}

\* Tensor::from_raw_buffer(data, dtype, shape, device)
from_raw_buffer(buffer, dtype, shape) == convert_slice(buffer, dtype, shape)

\* convert(view, device): `match view.dtype()` for the dtypes save() writes.
convert(view) ==
    CASE view.dtype = "st::U8" -> convert_slice(view, "U8", view.shape)
      [] view.dtype = "st::U32" -> convert_slice(view, "U32", view.shape)
      [] view.dtype = "st::BF16" -> convert_slice(view, "BF16", view.shape)
      [] view.dtype = "st::F16" -> convert_slice(view, "F16", view.shape)
      [] view.dtype = "st::F32" -> convert_slice(view, "F32", view.shape)
      [] view.dtype = "st::F64" -> convert_slice(view, "F64", view.shape)
      [] OTHER -> {[tag |-> "Err", err |-> "UnsupportedSafeTensorDtype", path |-> "none"]}

\* The shapes of the tensors of this part.
TensorShapes == {<<2>>, <<1, 2>>}

\* The tensors of one dtype.
TensorsOf(dtype) ==
    [dtype : {dtype}, shape : TensorShapes,
     elems : [1..2 -> ElemValues(size_in_bytes(dtype))]]

\* The maps handed to save(): a tensor "t", alone or with a tensor "u" of
\* shape (1, 2) as in tests::save_load_multiple_tensors.
TensorMaps ==
    UNION {{("t" :> t), ("t" :> t) @@ ("u" :> [t EXCEPT !.shape = <<1, 2>>])} :
              t \in UNION {TensorsOf(dt) : dt \in AllDTypes}}

\* The addresses a byte buffer starts at.
Addrs == {0, 1, 2, 4}

\* The byte buffers a loader hands over: up to MaxBytes bytes.
ByteBuffers == UNION {[1..n -> {0, 7}] : n \in 0..MaxBytes}

\* The shapes asked of from_raw_buffer.
LoadShapes == TensorShapes \cup {<<0>>, <<1>>}

\* Nothing has been converted, saved or loaded yet.
NothingDone ==
    /\ buf.from = "none"
    /\ file.saved = FALSE

\* convert_back(&t): the bytes of the tensor "t", in the allocation of the
\* Vec<T> that to_vec1 returned, which is aligned for T.
Tensor_convert_back ==
    /\ NothingDone
    /\ \E a \in Addrs :
          /\ a % size_in_bytes(tmap["t"].dtype) = 0
          /\ buf' = [from |-> "tensor", bytes |-> convert_back(tmap["t"]), addr |-> a]
    /\ UNCHANGED <<tmap, loaded, file, weights, off_st>>

\* A loader hands over a byte buffer of its own, at any address.
View_data ==
    /\ NothingDone
    /\ \E bs \in ByteBuffers, a \in Addrs :
          buf' = [from |-> "loader", bytes |-> bs, addr |-> a]
    /\ UNCHANGED <<tmap, loaded, file, weights, off_st>>

\* The same bytes at another address (a sub-slice of a larger buffer).
Buffer_at ==
    /\ buf.from # "none"
    /\ loaded.tag = "none"
    /\ \E a \in Addrs :
          /\ a # buf.addr
          /\ buf' = [buf EXCEPT !.addr = a]
    /\ UNCHANGED <<tmap, loaded, file, weights, off_st>>

\* Tensor::from_raw_buffer(&buf, dtype, shape, device)
Tensor_from_raw_buffer ==
    /\ buf.from # "none"
    /\ loaded.tag = "none"
    /\ \E dtype \in AllDTypes, shape \in LoadShapes :
          /\ buf.from = "tensor" => (dtype = tmap["t"].dtype /\ shape = tmap["t"].shape)
          /\ \E r \in from_raw_buffer(buf, dtype, shape) :
                loaded' = r @@ [dtype |-> dtype, shape |-> shape]
    /\ UNCHANGED <<tmap, buf, file, weights, off_st>>

\* save(&tensors, filename): serialize_to_file writes, for every name, the
\* View of the tensor: dtype().into(), shape() and data() = convert_back.
save ==
    /\ NothingDone
    /\ file' = [saved |-> TRUE,
                views |-> [name \in DOMAIN tmap |->
                              [dtype |-> st_from(tmap[name].dtype),
                               shape |-> tmap[name].shape,
                               bytes |-> convert_back(tmap[name])]]]
    /\ UNCHANGED <<tmap, buf, loaded, weights, off_st>>

\* The offset of the data of a view in the file: the data of "t" comes first.
data_offset(views, name) == IF name = "u" THEN Len(views["t"].bytes) ELSE 0

\* The view of a name in a file buffer that starts at address a.
view_at(views, name, a) == views[name] @@ [addr |-> a + data_offset(views, name)]

\* load_buffer(data, device): every view of the file goes through convert; the
\* outcomes of the call, one result for each name.
load_buffer(views, a) ==
    {rs \in [DOMAIN views -> UNION {convert(view_at(views, n, a)) : n \in DOMAIN views}] :
        \A n \in DOMAIN views : rs[n] \in convert(view_at(views, n, a))}

\* load(filename, device): the file is read into a buffer at some address.
load ==
    /\ file.saved
    /\ weights.tag = "none"
    /\ \E a \in Addrs :
          \E rs \in load_buffer(file.views, a) :
             weights' = [tag |-> IF \A n \in DOMAIN rs : rs[n].tag = "Ok"
                                 THEN "Ok" ELSE "Err",
                         tensors |-> rs]
    /\ UNCHANGED <<tmap, buf, loaded, file, off_st>>

\* The state before any conversion: the tensors at hand.
InitSafetensors ==
    /\ TapeIdle
    /\ VarMapIdle
    /\ ArmIdle
    /\ QIdle
    /\ ArithIdle
    /\ ParIdle
    /\ CellIdle
    /\ DispIdle
    /\ tmap \in TensorMaps
    /\ buf = [from |-> "none"]
    /\ loaded = [tag |-> "none"]
    /\ file = [saved |-> FALSE]
    /\ weights = [tag |-> "none"]

NextSafetensors ==
    \/ Tensor_convert_back
    \/ View_data
    \/ Buffer_at
    \/ Tensor_from_raw_buffer
    \/ save
    \/ load

SpecSafetensors == InitSafetensors /\ [][NextSafetensors]_vars

\* ------------------------------------------------- parallel helpers part
\* par_for_each and par_range of cpu/kernels.rs.  The calling thread and the
\* tasks of the rayon scope are processes; an invocation of func on a task is
\* two steps (entering func, func returning), and func may panic.

\* The arguments of the calls.
ThreadCounts == 0..MaxThreads

RangeEnds == 0..MaxUp

\* (from..up).step_by(step) as a list.
RECURSIVE step_by(_, _, _)
step_by(from, up, step) ==
    IF from >= up THEN <<>> ELSE <<from>> \o step_by(from + step, up, step)

\* The arguments func is invoked with by the calling thread when
\* n_threads == 1: func(0), or func(i) for i in lo..up.
inline_args(call) ==
    IF call.fn = "par_for_each" THEN <<0>> ELSE step_by(call.lo, call.up, 1)

\* The arguments func is invoked with by the task spawned for thread_idx:
\* func(thread_idx), or func(i) for i in (thread_idx..up).step_by(n_threads).
task_args(call, thread_idx) ==
    IF call.fn = "par_for_each" THEN <<thread_idx>>
    ELSE step_by(thread_idx, call.up, call.n_threads)

\* The calling thread enters the helper: it runs func itself when n_threads
\* is 1 and opens a rayon scope otherwise.
enter(call) ==
    /\ pc = "idle"
    /\ pcall' = call
    /\ pc' = IF call.n_threads = 1 THEN "inline" ELSE "scope"
    /\ todo' = IF call.n_threads = 1 THEN inline_args(call) ELSE <<>>
    /\ UNCHANGED <<task, invoked, finished, off_par>>

par_for_each ==
    \E n_threads \in ThreadCounts :
        enter([fn |-> "par_for_each", lo |-> 0, up |-> 0, n_threads |-> n_threads])

par_range ==
    \E lo \in RangeEnds, up \in RangeEnds, n_threads \in ThreadCounts :
        enter([fn |-> "par_range", lo |-> lo, up |-> up, n_threads |-> n_threads])

\* n_threads == 1: the calling thread invokes func on the next argument; a
\* panic of func unwinds the call.
Inline_call ==
    /\ pc = "inline"
    /\ todo # <<>>
    /\ invoked' = Append(invoked, Head(todo))
    /\ finished' = finished + 1
    /\ \E func_ok \in BOOLEAN :
          IF func_ok THEN todo' = Tail(todo) /\ pc' = pc
          ELSE todo' = <<>> /\ pc' = "unwound"
    /\ UNCHANGED <<pcall, task, off_par>>

\* n_threads == 1: the loop is over and the helper returns.
Inline_return ==
    /\ pc = "inline"
    /\ todo = <<>>
    /\ pc' = "returned"
    /\ UNCHANGED <<pcall, task, invoked, finished, todo, off_par>>

\* The closure of the scope spawns the task of the next thread_idx.
Scope_spawn ==
    /\ pc = "scope"
    /\ Len(task) < pcall.n_threads
    /\ task' = Append(task, [state |-> "spawned", panicked |-> FALSE,
                             args |-> task_args(pcall, Len(task))])
    /\ UNCHANGED <<pcall, pc, invoked, finished, todo, off_par>>

\* A worker of the pool picks up a spawned task.
Task_run(t) ==
    /\ task[t].state = "spawned"
    /\ task' = [task EXCEPT ![t].state = "running"]
    /\ UNCHANGED <<pcall, pc, invoked, finished, todo, off_par>>

\* The task enters func on its next argument.
Task_call(t) ==
    /\ task[t].state = "running"
    /\ task[t].args # <<>>
    /\ task' = [task EXCEPT ![t].state = "in_func"]
    /\ invoked' = Append(invoked, Head(task[t].args))
    /\ UNCHANGED <<pcall, pc, finished, todo, off_par>>

\* func returns to the task, or panics and ends it.
Task_return(t) ==
    /\ task[t].state = "in_func"
    /\ finished' = finished + 1
    /\ \E func_ok \in BOOLEAN :
          task' = IF func_ok
                  THEN [task EXCEPT ![t].state = "running",
                                    ![t].args = Tail(task[t].args)]
                  ELSE [task EXCEPT ![t].state = "done", ![t].panicked = TRUE]
    /\ UNCHANGED <<pcall, pc, invoked, todo, off_par>>

\* The task has no argument left and ends.
Task_end(t) ==
    /\ task[t].state = "running"
    /\ task[t].args = <<>>
    /\ task' = [task EXCEPT ![t].state = "done"]
    /\ UNCHANGED <<pcall, pc, invoked, finished, todo, off_par>>

\* A scope that ends as soon as its closure has spawned the tasks.
scope_complete_without_wait(tasks) == TRUE

\* rayon::scope ends once every task spawned into it has ended.
scope_complete(tasks) == \A t \in DOMAIN tasks : tasks[t].state = "done"

\* The scope ends: the helper returns, or the panic of a task is propagated.
Scope_end ==
    /\ pc = "scope"
    /\ Len(task) = pcall.n_threads
    /\ scope_complete(task)
    /\ pc' = IF \E t \in DOMAIN task : task[t].panicked THEN "unwound"
             ELSE "returned"
    /\ UNCHANGED <<pcall, task, invoked, finished, todo, off_par>>

NextPar ==
    \/ par_for_each
    \/ par_range
    \/ Inline_call
    \/ Inline_return
    \/ Scope_spawn
    \/ \E t \in DOMAIN task : Task_run(t)
    \/ \E t \in DOMAIN task : Task_call(t)
    \/ \E t \in DOMAIN task : Task_return(t)
    \/ \E t \in DOMAIN task : Task_end(t)
    \/ Scope_end

SpecPar == Init /\ [][NextPar]_vars

\* ------------------------------------------------ integer arithmetic part
\* The U8 and U32 functions of bin_op! (op.rs) and the default VecOps
\* methods (cpu/kernels.rs).  A u8 or u32 is the list of its bytes, least
\* significant first, so that no intermediate value leaves the integers of
\* the checker.  The operators +, -, * and += of Rust panic on overflow in
\* a build with overflow checks and wrap in a build without them.

\* Values of a U8 and of a U32: 0, 1, 2, 2^(w/2) and 2^w - 1.
IntValues(dtype) ==
    IF dtype = "U8" THEN {<<0>>, <<1>>, <<2>>, <<16>>, <<255>>}
    ELSE {<<0, 0, 0, 0>>, <<1, 0, 0, 0>>, <<2, 0, 0, 0>>, <<0, 0, 1, 0>>,
          <<255, 255, 255, 255>>}

\* acc + a * d + c on lists of the same length; the last byte of the result
\* is the carry out of the width.
RECURSIVE mac(_, _, _, _)
mac(acc, a, d, c) ==
    IF a = <<>> THEN <<c>>
    ELSE LET s == Head(acc) + Head(a) * d + c
         IN  <<s % 256>> \o mac(Tail(acc), Tail(a), d, s \div 256)

\* a - b - c on lists of the same length; the last byte of the result is the
\* borrow out of the width.
RECURSIVE sbb(_, _, _)
sbb(a, b, c) ==
    IF a = <<>> THEN <<c>>
    ELSE LET d == Head(a) - Head(b) - c
         IN  <<(d + 256) % 256>> \o sbb(Tail(a), Tail(b), IF d < 0 THEN 1 ELSE 0)

\* The exact product a * b, of Len(a) + Len(b) bytes.
RECURSIVE prod(_, _)
prod(a, b) ==
    IF b = <<>> THEN [i \in 1..Len(a) |-> 0]
    ELSE LET high == <<0>> \o prod(a, Tail(b))
             wide == a \o [i \in 1..Len(b) |-> 0]
         IN  SubSeq(mac(high, wide, Head(b), 0), 1, Len(a) + Len(b))

\* v1 op v2 in the width of the operands: the bytes that fit, and whether
\* the exact result does not.
wrapping(op, v1, v2) ==
    LET n == Len(v1)
        full == CASE op = "add" -> mac(v1, v2, 1, 0) \o [i \in 1..n |-> 0]
                  [] op = "sub" -> sbb(v1, v2, 0) \o [i \in 1..n |-> 0]
                  [] op = "mul" -> prod(v1, v2) \o <<0>>
    IN  [wrapped |-> SubSeq(full, 1, n),
         overflow |-> \E i \in n + 1..Len(full) : full[i] # 0]

\* A call that ended with the value, and one that panicked.
Value(v) == [tag |-> "Ok", value |-> v]

Overflowed == [tag |-> "Panic", value |-> <<>>]

\* Add::u8, Sub::u8, Mul::u8 and the u32 ones: $e(v1, v2) with the closures
\* v1 + v2, v1 - v2 and v1 * v2.
bin_op(op, v1, v2, overflow_checks) ==
    LET r == wrapping(op, v1, v2)
    IN  IF r.overflow /\ overflow_checks THEN Overflowed ELSE Value(r.wrapped)

\* Self::zero() of the dtype.
zero(dtype) == [i \in 1..size_in_bytes(dtype) |-> 0]

\* The loop of vec_dot from index 1 of what is left:
\* *res += *lhs.add(i) * *rhs.add(i), with sum for *res.
RECURSIVE vec_dot_from(_, _, _, _)
vec_dot_from(sum, lhs, rhs, overflow_checks) ==
    IF lhs = <<>> THEN Value(sum)
    ELSE LET p == bin_op("mul", Head(lhs), Head(rhs), overflow_checks)
             s == bin_op("add", sum, p.value, overflow_checks)
         IN  IF p.tag = "Panic" THEN p
             ELSE IF s.tag = "Panic" THEN s
             ELSE vec_dot_from(s.value, Tail(lhs), Tail(rhs), overflow_checks)

\* The default VecOps::vec_dot, used by u8 and u32.
vec_dot(dtype, lhs, rhs, overflow_checks) ==
    vec_dot_from(zero(dtype), lhs, rhs, overflow_checks)

\* The loop of vec_reduce_sum: *sum += *xs.add(i).
RECURSIVE vec_reduce_sum_from(_, _, _)
vec_reduce_sum_from(sum, xs, overflow_checks) ==
    IF xs = <<>> THEN Value(sum)
    ELSE LET s == bin_op("add", sum, Head(xs), overflow_checks)
         IN  IF s.tag = "Panic" THEN s
             ELSE vec_reduce_sum_from(s.value, Tail(xs), overflow_checks)

\* The default VecOps::vec_reduce_sum, used by u8 and u32.
vec_reduce_sum(dtype, xs, overflow_checks) ==
    vec_reduce_sum_from(zero(dtype), xs, overflow_checks)

NotApplied == ain.dtype # "none" /\ aout.fn = "none"

\* Binary Add, Sub or Mul on the first elements of the two operands.
BinaryOpT_apply ==
    /\ NotApplied
    /\ ain.lhs # <<>>
    /\ \E op \in {"add", "sub", "mul"} :
          aout' = bin_op(op, ain.lhs[1], ain.rhs[1], ain.overflow_checks)
                      @@ [fn |-> op]
    /\ UNCHANGED <<ain, off_arith>>

VecOps_vec_dot ==
    /\ NotApplied
    /\ aout' = vec_dot(ain.dtype, ain.lhs, ain.rhs, ain.overflow_checks)
                   @@ [fn |-> "vec_dot"]
    /\ UNCHANGED <<ain, off_arith>>

VecOps_vec_reduce_sum ==
    /\ NotApplied
    /\ aout' = vec_reduce_sum(ain.dtype, ain.lhs, ain.overflow_checks)
                   @@ [fn |-> "vec_reduce_sum"]
    /\ UNCHANGED <<ain, off_arith>>

\* The operands: two vectors of the same length of one integer dtype, in a
\* build with or without overflow checks.
InitArith ==
    /\ TapeIdle
    /\ VarMapIdle
    /\ ArmIdle
    /\ QIdle
    /\ CellIdle
    /\ DispIdle
    /\ StIdle
    /\ ParIdle
    /\ \E dtype \in {"U8", "U32"}, len \in 0..MaxLen :
          ain \in [dtype : {dtype},
                   lhs : [1..len -> IntValues(dtype)],
                   rhs : [1..len -> IntValues(dtype)],
                   overflow_checks : BOOLEAN]
    /\ aout = [fn |-> "none"]

NextArith ==
    \/ BinaryOpT_apply
    \/ VecOps_vec_dot
    \/ VecOps_vec_reduce_sum

SpecArith == InitArith /\ [][NextArith]_vars

\* --------------------------------------------------- quantized matmul part
\* QMatMul::cpu_fwd of quantized/mod.rs, as the sequence of its checks.

\* The shapes of the inputs: rank 1 to 3, every dim in 1..MaxDim.
QShapes == UNION {[1..r -> 1..MaxDim] : r \in 1..3}

\* The layouts of the inputs: the contiguous ones and the views of SrcLayouts.
QLayouts == {contiguous(shape) : shape \in QShapes} \cup SrcLayouts

\* The shapes (k, n) of the stored weight; QTensor::new takes any shape, so
\* n may be 0.
QWeights == {<<k, n>> : k \in 1..MaxDim, n \in 0..MaxDim}

\* An Err(..) of cpu_fwd: no storage and no shape.
QFailure(msg) == [tag |-> "Err", msg |-> msg, dtype |-> "none", shape |-> <<>>]

\* QMatMul::cpu_fwd(storage, layout): matmul_t fills the output and returns
\* Ok(()).
QMatMul_cpu_fwd ==
    /\ qin.dtype # "none"
    /\ qout.tag = "none"
    /\ LET src_shape == qin.layout.shape
           k == qin.weight[1]
           n == qin.weight[2]
           dst_shape == SubSeq(src_shape, 1, Len(src_shape) - 1) \o <<n>>
       IN  qout' =
             IF ~is_contiguous(qin.layout)
             THEN QFailure("input tensor is not contiguous")
             ELSE IF Len(src_shape) < 2
             THEN QFailure("input tensor has only one dimension")
             ELSE IF src_shape[Len(src_shape)] # k
             THEN QFailure("input tensor incompatible with the weight")
             ELSE IF qin.dtype # "F32"
             THEN QFailure("unexpected dtype")
             ELSE IF n = 0
             THEN [tag |-> "Panic", msg |-> "attempt to divide by zero",
                   dtype |-> "none", shape |-> <<>>]
             ELSE [tag |-> "Ok", msg |-> "none", dtype |-> "F32", shape |-> dst_shape]
    /\ UNCHANGED <<qin, off_qmm>>

\* The input of the call: a Cpu storage of some dtype under a layout, and
\* the weight of the QMatMul.
InitQMatMul ==
    /\ TapeIdle
    /\ VarMapIdle
    /\ ArmIdle
    /\ CellIdle
    /\ DispIdle
    /\ StIdle
    /\ ParIdle
    /\ ArithIdle
    /\ qin \in [dtype : {"F32", "U8"}, layout : QLayouts, weight : QWeights]
    /\ qout = [tag |-> "none"]

SpecQMatMul == InitQMatMul /\ [][QMatMul_cpu_fwd]_vars

\* ------------------------------------------------------ gradient arm part
\* The arms of backward() for Cat, Narrow, Broadcast and Unary Abs, on tensors
\* with a shape and one integer for each index.  A tensor is [dims, at]: at
\* maps every index (a list of positions, from 0) to the element.

RECURSIVE Indices(_)
\* The indexes of a shape.
Indices(dims) ==
    IF dims = <<>> THEN {<<>>}
    ELSE {<<i>> \o r : i \in 0..(Head(dims) - 1), r \in Indices(Tail(dims))}

RECURSIVE flat_index(_, _)
\* The position of an index in row-major order.
flat_index(idx, dims) ==
    IF idx = <<>> THEN 0
    ELSE Head(idx) * elem_count(Tail(dims)) + flat_index(Tail(idx), Tail(dims))

\* The gradients of a node of the given shape: the one whose element at
\* position k in row-major order is 2^k, so that every sum of elements tells
\* which elements were summed, and the all-ones gradient that the root and
\* the input of a sum get.
NodeGrads(dims) ==
    {[dims |-> dims, at |-> [idx \in Indices(dims) |-> 2 ^ flat_index(idx, dims)]],
     [dims |-> dims, at |-> [idx \in Indices(dims) |-> 1]]}

\* Tensor::zeros(dims, ..)
zeros(dims) == [dims |-> dims, at |-> [idx \in Indices(dims) |-> 0]]

\* Tensor::narrow(dim, start, len)
narrow(t, dim, start, len) ==
    LET dims == [t.dims EXCEPT ![dim] = len]
    IN  [dims |-> dims,
         at |-> [idx \in Indices(dims) |-> t.at[[idx EXCEPT ![dim] = @ + start]]]]

RECURSIVE cat(_, _)
\* Tensor::cat(ts, dim): the tensors one after the other along dim.
cat(ts, dim) ==
    IF Len(ts) = 1 THEN ts[1]
    ELSE LET front == cat(SubSeq(ts, 1, Len(ts) - 1), dim)
             back == ts[Len(ts)]
             dims == [front.dims EXCEPT ![dim] = @ + back.dims[dim]]
         IN  [dims |-> dims,
              at |-> [idx \in Indices(dims) |->
                         IF idx[dim] < front.dims[dim] THEN front.at[idx]
                         ELSE back.at[[idx EXCEPT ![dim] = @ - front.dims[dim]]]]]

\* Tensor::add of two tensors of the same shape; Err(ShapeMismatchBinaryOp)
\* otherwise.
add(lhs, rhs) ==
    IF lhs.dims # rhs.dims THEN [err |-> "ShapeMismatchBinaryOp"]
    ELSE [dims |-> lhs.dims,
          at |-> [idx \in Indices(lhs.dims) |-> lhs.at[idx] + rhs.at[idx]]]

\* `let sum_grad = grads.or_insert(arg)?; *sum_grad = sum_grad.add(&arg_grad)?`
\* on a GradStore without an entry for arg: the entry after the arm.
sum_grad_add(arg_dims, arg_grad) == add(zeros(arg_dims), arg_grad)

\* The Cat arm with every slice taken from the start of the gradient.
Op_Cat_same_start(args, dim, grad) ==
    [i \in DOMAIN args |->
        sum_grad_add(args[i], narrow(grad, dim, 0, args[i][dim]))]

RECURSIVE Op_Cat_from(_, _, _, _)
\* The loop of the Op::Cat arm over the args that are left: narrow at
\* start_idx, add, start_idx += len.
Op_Cat_from(start_idx, args, dim, grad) ==
    IF args = <<>> THEN <<>>
    ELSE LET len == Head(args)[dim]
         IN  <<sum_grad_add(Head(args), narrow(grad, dim, start_idx, len))>>
             \o Op_Cat_from(start_idx + len, Tail(args), dim, grad)

\* The Op::Cat(args, dim) arm; args are the shapes of the inputs.
Op_Cat(args, dim, grad) == Op_Cat_from(0, args, dim, grad)

\* The shapes of rank 1 and 2 with every dim in 1..MaxExtent.
ArmShapes == UNION {[1..r -> 1..MaxExtent] : r \in 1..2}

NoArm == arm_in.op = "none"

\* backward() reaches a Cat node: up to MaxArgs inputs that agree on every
\* dim but dim; the gradient has the shape of the node.
Backward_Cat ==
    /\ NoArm
    /\ \E base \in ArmShapes, n \in 1..MaxArgs :
         \E dim \in DOMAIN base, extents \in [1..n -> 1..MaxExtent] :
            LET args == [i \in 1..n |-> [base EXCEPT ![dim] = extents[i]]]
                node_dims == cat([i \in 1..n |-> zeros(args[i])], dim).dims
            IN  \E grad \in NodeGrads(node_dims) :
                   /\ arm_in' = [op |-> "Cat", args |-> args, dim |-> dim,
                                 grad |-> grad]
                   /\ arm_out' = Op_Cat(args, dim, grad)
    /\ UNCHANGED off_arm

\* A padding tensor of the Narrow arm: None (no tensor) for the extent 0, else
\* Some(zeros) of the input's shape with the given extent along dim.
pad(arg_dims, dim, extent) ==
    IF extent = 0 THEN <<>> ELSE <<zeros([arg_dims EXCEPT ![dim] = extent])>>

\* The Narrow arm with the two paddings on the wrong sides.
Op_Narrow_swapped(arg_dims, dim, start_idx, len, grad) ==
    LET pieces == pad(arg_dims, dim, arg_dims[dim] - start_idx - len)
                  \o <<grad>> \o pad(arg_dims, dim, start_idx)
    IN  [pieces |-> pieces, sum_grad |-> sum_grad_add(arg_dims, cat(pieces, dim))]

\* The Op::Narrow(arg, dim, start_idx, len) arm: the tensors that are
\* concatenated along dim and the entry of arg after the arm.
Op_Narrow(arg_dims, dim, start_idx, len, grad) ==
    LET left_pad == pad(arg_dims, dim, start_idx)
        right_pad == pad(arg_dims, dim, arg_dims[dim] - start_idx - len)
        pieces == left_pad \o <<grad>> \o right_pad
    IN  [pieces |-> pieces, sum_grad |-> sum_grad_add(arg_dims, cat(pieces, dim))]

\* backward() reaches a Narrow node: the input has up to MaxExtent + 1
\* positions along dim, so that both sides of the slice can need a padding.
Backward_Narrow ==
    /\ NoArm
    /\ \E base \in ArmShapes :
         \E dim \in DOMAIN base, extent \in 1..(MaxExtent + 1) :
            \E start_idx \in 0..(extent - 1) :
               \E len \in 1..(extent - start_idx) :
                  LET arg_dims == [base EXCEPT ![dim] = extent]
                  IN  \E grad \in NodeGrads([arg_dims EXCEPT ![dim] = len]) :
                         /\ arm_in' = [op |-> "Narrow", arg |-> arg_dims,
                                       dim |-> dim, start_idx |-> start_idx,
                                       len |-> len, grad |-> grad]
                         /\ arm_out' = Op_Narrow(arg_dims, dim, start_idx, len, grad)
    /\ UNCHANGED off_arm

RECURSIVE sum_keepdim(_, _)
\* Tensor::sum_keepdim(sum_dims): the listed dims are summed one after the
\* other, each keeping one position.
sum_keepdim(t, sum_dims) ==
    IF sum_dims = <<>> THEN t
    ELSE LET d == Head(sum_dims)
             dims == [t.dims EXCEPT ![d] = 1]
             partial[k \in 0..t.dims[d]] ==
                 [idx \in Indices(dims) |->
                     IF k = 0 THEN 0
                     ELSE partial[k - 1][idx] + t.at[[idx EXCEPT ![d] = k - 1]]]
         IN  sum_keepdim([dims |-> dims,
                          at |-> partial[t.dims[d]]],
                         Tail(sum_dims))

\* Tensor::squeeze(0): the first dim is removed when it has one position, the
\* tensor is returned as it is otherwise.
squeeze(t) ==
    IF t.dims = <<>> \/ Head(t.dims) # 1 THEN t
    ELSE [dims |-> Tail(t.dims),
          at |-> [idx \in Indices(Tail(t.dims)) |-> t.at[<<0>> \o idx]]]

\* Tensor::broadcast_as(dims): the dims of t are aligned on the right; a dim
\* of one position is read at position 0 for every position of the target.
broadcast_as(t, dims) ==
    LET left == Len(dims) - Len(t.dims)
    IN  IF \/ left < 0
           \/ \E d \in DOMAIN t.dims : t.dims[d] \notin {1, dims[d + left]}
        THEN [err |-> "ShapeMismatchBinaryOp"]
        ELSE [dims |-> dims,
              at |-> [idx \in Indices(dims) |->
                         t.at[[d \in DOMAIN t.dims |->
                                  IF t.dims[d] = 1 THEN 0 ELSE idx[d + left]]]]]

\* The Broadcast arm summing the inserted leading dims only.
Op_Broadcast_leading_only(arg_dims, grad) ==
    LET left_dims == Len(grad.dims) - Len(arg_dims)
        summed == sum_keepdim(grad, [d \in 1..left_dims |-> d])
        squeezed[i \in 0..left_dims] ==
            IF i = 0 THEN summed ELSE squeeze(squeezed[i - 1])
        arg_grad == broadcast_as(squeezed[left_dims], arg_dims)
    IN  IF "err" \in DOMAIN arg_grad THEN arg_grad
        ELSE sum_grad_add(arg_dims, arg_grad)

\* The Op::Broadcast(arg) arm; the node has the dims of grad.  The dims are
\* numbered from 1 here, so the dim `dim + left_dims` of the code is d + left_dims.
Op_Broadcast(arg_dims, grad) ==
    LET node_dims == grad.dims
        left_dims == Len(node_dims) - Len(arg_dims)
        expanded == SelectSeq([d \in DOMAIN arg_dims |-> d + left_dims],
                              LAMBDA n : node_dims[n] # arg_dims[n - left_dims])
        sum_dims == [d \in 1..left_dims |-> d] \o expanded
        summed == sum_keepdim(grad, sum_dims)
        squeezed[i \in 0..left_dims] ==
            IF i = 0 THEN summed ELSE squeeze(squeezed[i - 1])
        arg_grad == broadcast_as(squeezed[left_dims], arg_dims)
    IN  IF "err" \in DOMAIN arg_grad THEN arg_grad
        ELSE sum_grad_add(arg_dims, arg_grad)

\* backward() reaches a Broadcast node: the input has the last dims of the
\* node, some of them with one position only, and may have no dim at all.
Backward_Broadcast ==
    /\ NoArm
    /\ \E node_dims \in ArmShapes :
         \E left_dims \in 0..Len(node_dims) :
            \E arg_dims \in [1..(Len(node_dims) - left_dims) -> 1..MaxExtent] :
               /\ \A d \in DOMAIN arg_dims :
                     arg_dims[d] \in {1, node_dims[d + left_dims]}
               /\ \E grad \in NodeGrads(node_dims) :
                     /\ arm_in' = [op |-> "Broadcast", arg |-> arg_dims,
                                   grad |-> grad]
                     /\ arm_out' = Op_Broadcast(arg_dims, grad)
    /\ UNCHANGED off_arm

\* The Unary Abs arm with the gradient multiplied by `ones` instead of the
\* result of where_cond.
Op_Abs_ones(x, grad) ==
    LET ones == [dims |-> x.dims, at |-> [idx \in Indices(x.dims) |-> 1]]
    IN  [abs_grad |-> ones,
         sum_grad |-> sum_grad_add(x.dims,
             [dims |-> grad.dims,
              at |-> [idx \in Indices(grad.dims) |-> grad.at[idx] * ones.at[idx]]])]

\* The Op::Unary(arg, UnaryOp::Abs) arm on the input x: `ge` is the U8 mask of
\* arg.ge(&arg.zeros_like()), abs_grad the result of where_cond(&ones,
\* &ones.neg()) on it, and the entry of arg gets `&grad * abs_grad`.
Op_Abs(x, grad) ==
    LET ones == [idx \in Indices(x.dims) |-> 1]
        ge == [idx \in Indices(x.dims) |-> IF x.at[idx] >= 0 THEN 1 ELSE 0]
        abs_grad == [idx \in Indices(x.dims) |->
                        IF ge[idx] # 0 THEN ones[idx] ELSE 0 - ones[idx]]
    IN  [abs_grad |-> [dims |-> x.dims, at |-> abs_grad],
         sum_grad |-> sum_grad_add(x.dims,
             [dims |-> grad.dims,
              at |-> [idx \in Indices(grad.dims) |-> grad.at[idx] * abs_grad[idx]]])]

\* backward() reaches an Abs node: the input has negative, zero and positive
\* elements, the gradient has the shape of the input.
Backward_Abs ==
    /\ NoArm
    /\ \E dims \in ArmShapes :
         \E at \in [Indices(dims) -> (0 - 1)..1], grad \in NodeGrads(dims) :
            /\ arm_in' = [op |-> "Abs", x |-> [dims |-> dims, at |-> at],
                          grad |-> grad]
            /\ arm_out' = Op_Abs([dims |-> dims, at |-> at], grad)
    /\ UNCHANGED off_arm

NextArm ==
    \/ Backward_Cat
    \/ Backward_Narrow
    \/ Backward_Broadcast
    \/ Backward_Abs

SpecArm == Init /\ [][NextArm]_vars

\* ------------------------------------------------------------ VarMap part
\* VarMap::get of var_builder.rs, called by several threads on clones of one
\* VarMap.  A call is five steps: entering get(), locking the mutex, the
\* lookup in the map, init.var() and the insertion; the MutexGuard
\* tensor_data is dropped when get() returns.

\* Mutex::lock(): the calling thread gets the guard when no thread holds it.
lock_without_mutex(holder) == TRUE

lock(holder) == holder = 0

\* A thread calls get(shape, path, init, dtype, device), directly or through
\* VarBuilder::get_or_init on a builder backed by the VarMap.
VarMap_get(t) ==
    /\ getter[t].pc = "idle"
    /\ \E shape \in VarShapes, path \in {"weight", "bias"} :
          getter' = [getter EXCEPT ![t] =
                        [pc |-> "lock", shape |-> shape, path |-> path]]
    /\ UNCHANGED <<tensor_data, mutex, n_vars, inserted, off_vm>>

\* `let mut tensor_data = self.data.lock().unwrap()`
Mutex_lock(t) ==
    /\ getter[t].pc = "lock"
    /\ lock(mutex)
    /\ mutex' = t
    /\ getter' = [getter EXCEPT ![t].pc = "lookup"]
    /\ UNCHANGED <<tensor_data, n_vars, inserted, off_vm>>

\* `if let Some(tensor) = tensor_data.get(path)`: a stored Var of another
\* shape ends the call with an error, a stored Var of the same shape ends it
\* with a tensor of that Var; without an entry the call goes on.
HashMap_get(t) ==
    /\ getter[t].pc = "lookup"
    /\ LET path == getter[t].path
       IN  IF path \in DOMAIN tensor_data
           THEN /\ getter' = [getter EXCEPT ![t] =
                      [pc |-> "returned",
                       ret |-> IF getter[t].shape # tensor_data[path].shape
                               THEN [tag |-> "Err", err |-> "shape mimatch"]
                               ELSE [tag |-> "Ok", id |-> tensor_data[path].id]] @@ @]
                /\ mutex' = 0
           ELSE /\ getter' = [getter EXCEPT ![t].pc = "init"]
                /\ mutex' = mutex
    /\ UNCHANGED <<tensor_data, n_vars, inserted, off_vm>>

\* `let var = init.var(shape, dtype, device)?`: a new Var, or the error of
\* the device.
Init_var(t) ==
    /\ getter[t].pc = "init"
    /\ \E created \in BOOLEAN :
          IF created
          THEN /\ n_vars' = n_vars + 1
               /\ getter' = [getter EXCEPT ![t] =
                                [pc |-> "insert", id |-> n_vars + 1] @@ @]
               /\ mutex' = mutex
          ELSE /\ n_vars' = n_vars
               /\ getter' = [getter EXCEPT ![t] =
                                [pc |-> "returned",
                                 ret |-> [tag |-> "Err", err |-> "init"]] @@ @]
               /\ mutex' = 0
    /\ UNCHANGED <<tensor_data, inserted, off_vm>>

\* `tensor_data.insert(path.to_string(), var); Ok(tensor)`: HashMap::insert
\* replaces the value of a key that is present.
HashMap_insert(t) ==
    /\ getter[t].pc = "insert"
    /\ LET entry == [id |-> getter[t].id, shape |-> getter[t].shape]
       IN  /\ tensor_data' = (getter[t].path :> entry) @@ tensor_data
           /\ inserted' = Append(inserted, [path |-> getter[t].path,
                                            id |-> getter[t].id])
    /\ getter' = [getter EXCEPT ![t] =
                     [pc |-> "returned",
                      ret |-> [tag |-> "Ok", id |-> getter[t].id]] @@ @]
    /\ mutex' = 0
    /\ UNCHANGED <<n_vars, off_vm>>

NextVarMap ==
    \/ \E t \in 1..MaxThreads : VarMap_get(t)
    \/ \E t \in 1..MaxThreads : Mutex_lock(t)
    \/ \E t \in 1..MaxThreads : HashMap_get(t)
    \/ \E t \in 1..MaxThreads : Init_var(t)
    \/ \E t \in 1..MaxThreads : HashMap_insert(t)

SpecVarMap == Init /\ [][NextVarMap]_vars

\* ---------------------------------------------------------------- claims

Range(s) == {s[i] : i \in 1..Len(s)}

\* backward() has been called and has ended.
Called == ret.tag # "none"

OpOf(n) == tensors[n].op

IsAffineZero(n) == tensors[n].op = "Affine" /\ tensors[n].mul = 0

RECURSIVE Reach(_)
\* The tensors reachable from n through the op inputs of non-variable nodes.
Reach(n) ==
    {n} \cup (IF is_variable(n)
              THEN {}
              ELSE UNION {Reach(a) : a \in Range(tensors[n].args)})

RECURSIVE ReachPruned(_)
\* The same, not passing from an Affine node with mul == 0 to its arg.
ReachPruned(n) ==
    {n} \cup (IF is_variable(n) \/ IsAffineZero(n)
              THEN {}
              ELSE UNION {ReachPruned(a) : a \in Range(tensors[n].args)})

\* The derivative of node n with respect to its i-th input, for the linear ops.
Weight(n, i) ==
    CASE OpOf(n) = "Sub" /\ i = 2 -> 0 - 1
      [] OpOf(n) = "Neg" -> 0 - 1
      [] OpOf(n) = "Affine" -> tensors[n].mul
      [] OpOf(n) \in CustomKinds -> IF tensors[n].bwd.opt[i] = "Some" THEN 1 ELSE 0
      [] OTHER -> 1

RECURSIVE PathSum(_, _)
RECURSIVE PathSumInputs(_, _, _)
\* The sum over all paths from n to x of the product of the weights on the path;
\* in a graph of Add nodes this is the number of distinct paths from n to x.
PathSum(n, x) ==
    IF n = x THEN 1
    ELSE IF is_variable(n) THEN 0
    ELSE PathSumInputs(n, Len(tensors[n].args), x)

PathSumInputs(n, i, x) ==
    IF i = 0 THEN 0
    ELSE Weight(n, i) * PathSum(tensors[n].args[i], x) + PathSumInputs(n, i - 1, x)

AddOnly(root) ==
    \A n \in Reach(root) : ~is_variable(n) => OpOf(n) \in {NoOp, "Add"}

LinearOnly(root) ==
    \A n \in Reach(root) :
        ~is_variable(n) => OpOf(n) \in {NoOp, "Add", "Sub", "Neg", "Copy", "Affine"}

ListedUnsupported == {n \in Range(ret.nodes) : OpOf(n) \in UnsupportedKinds}

ListedNoGrad == {n \in Range(ret.nodes) : OpOf(n) \in NoGradKinds}

\* C1: in the node list backward() iterates, every listed node comes before
\* every listed tensor that is an input of its op; so when backward() removes
\* the gradient of a non-variable node, every listed consumer of that node has
\* been processed before.
C1_SortedNodesOrder ==
    Called =>
        /\ \A i, j \in 1..Len(ret.nodes) :
              ret.nodes[j] \in Range(tensors[ret.nodes[i]].args) => i < j
        /\ \A k \in 1..Len(ret.processed) :
              \A c \in Range(ret.nodes) :
                  (~is_variable(c) /\ ret.processed[k] \in Range(tensors[c].args))
                      => \E j \in 1..(k - 1) : ret.processed[j] = c

\* C1 witness: a run that processed a node and then one of its inputs, which
\* is also read by a later-listed variable chain (three listed nodes).
C1_Witness ==
    /\ ret.tag = "Ok"
    /\ Len(ret.nodes) = 3
    /\ Len(ret.processed) = 2
    /\ ret.processed[2] \in Range(tensors[ret.processed[1]].args)
    /\ ret.nodes[3] \in Range(tensors[ret.processed[1]].args)

\* C2 (as claimed): backward() never panics: whenever its loop reaches a
\* non-variable node of the sorted list, the gradient map has an entry for it.
C2_BackwardNeverPanics == ret.tag # "Panic"

\* C3 (as claimed): when the root depends on a variable through a Cmp, ArgMin
\* or ArgMax node (and no listed op is unsupported), backward() ends with Ok,
\* and a variable whose only listed consumer is such a node gets no gradient.
C3_NoGradOpsEndOk ==
    (Called /\ ListedNoGrad # {} /\ ListedUnsupported = {}) =>
        /\ ret.tag = "Ok"
        /\ \A n \in ListedNoGrad :
              \A a \in Range(tensors[n].args) :
                  (is_variable(a) /\ a # ret.root /\
                   \A c \in Range(ret.nodes) :
                       a \in Range(tensors[c].args) => c = n)
                      => a \notin DOMAIN ret.grads

\* C4 (as claimed): after backward() returns Ok for a root that is in the node
\* list, every key of the returned GradStore is the id of a variable.
C4_GradStoreKeysAreVariables ==
    (ret.tag = "Ok" /\ ret.root \in Range(ret.nodes)) =>
        \A k \in DOMAIN ret.grads : is_variable(k)

\* C5: gradients accumulate over all uses of a tensor.  In a graph made only
\* of Add nodes backward() returns Ok and the gradient of each reachable
\* variable x is the number of distinct paths from the root to x (2 for
\* root = x + x); in a graph of linear ops every returned gradient is the sum
\* over the paths of the contributions along them.
C5_GradientsAccumulate ==
    /\ (Called /\ AddOnly(ret.root)) =>
          /\ ret.tag = "Ok"
          /\ \A x \in Reach(ret.root) :
                is_variable(x) =>
                    /\ x \in DOMAIN ret.grads
                    /\ ret.grads[x] = PathSum(ret.root, x)
    /\ (Called /\ LinearOnly(ret.root)) =>
          /\ ret.tag = "Ok"
          /\ \A x \in DOMAIN ret.grads :
                is_variable(x) => ret.grads[x] = PathSum(ret.root, x)

\* C5 witness: root = a + a with a = x + x, four paths from the root to x.
C5_Witness ==
    /\ ret.tag = "Ok"
    /\ AddOnly(ret.root)
    /\ \E x \in Ids :
          /\ is_variable(x)
          /\ x \in DOMAIN ret.grads
          /\ ret.grads[x] = 4
          /\ \E a \in Ids : tensors[a].args = <<x, x>> /\ tensors[ret.root].args = <<a, a>>

\* C6: a variable that is not reachable from the root through the op inputs
\* of non-variable nodes has no entry in the GradStore backward() returns.
C6_UnreachableVariableNoEntry ==
    ret.tag = "Ok" =>
        \A v \in Ids :
            (is_variable(v) /\ v \notin Reach(ret.root)) => v \notin DOMAIN ret.grads

\* C6 witness: backward() processed a node and returned a gradient for one
\* variable while another variable of the tape is not reachable from the root.
C6_Witness ==
    /\ ret.tag = "Ok"
    /\ Len(ret.processed) >= 1
    /\ \E v, w \in Ids :
          /\ is_variable(v) /\ v \notin Reach(ret.root)
          /\ is_variable(w) /\ w \in DOMAIN ret.grads

\* C7 (as claimed): if the root depends on a variable through a non-variable
\* node produced by Conv1D, Conv2D, AvgPool2D, MaxPool2D, UpsampleNearest2D,
\* Gelu or Elu, backward() returns Err(BackwardNotSupported) naming such an op
\* and returns no GradStore.
C7_UnsupportedOpGivesErr ==
    (Called /\ ListedUnsupported # {}) =>
        /\ ret.tag = "Err"
        /\ ret.op \in {OpName(OpOf(n)) : n \in ListedUnsupported}
        /\ ret.grads = <<>>

\* C8: sorted_nodes does not descend into the arg of an Affine node with
\* mul == 0: such a node is never in the node list, and a variable reachable
\* from the root only through such nodes is neither listed nor given a
\* gradient entry by backward().
C8_AffineZeroPrunes ==
    Called =>
        /\ \A n \in Range(ret.nodes) : ~IsAffineZero(n)
        /\ \A v \in Reach(ret.root) \ ReachPruned(ret.root) :
              is_variable(v) =>
                  /\ v \notin Range(ret.nodes)
                  /\ v \notin DOMAIN ret.grads

\* C8 witness: backward() returned Ok on a root that reaches a variable only
\* through an Affine node with mul == 0.
C8_Witness ==
    /\ ret.tag = "Ok"
    /\ \E v \in Reach(ret.root) \ ReachPruned(ret.root) : is_variable(v)
    /\ \E n \in Reach(ret.root) : IsAffineZero(n)

\* A set() call has ended and its argument is still at hand.
SetEnded == last_err # "none"

\* C9 (as claimed): Var::set(src) fails with CannotSetVar when src shares the
\* variable's storage, with CannotSetVar when the variable's layout is not
\* contiguous, and with ShapeMismatchBinaryOp{op:"set"} when src's shape
\* differs from the variable's; no failing call writes the storage.
C9_SetFailuresAsClaimed ==
    SetEnded =>
        /\ same_storage(var, src) => last_err = "CannotSetVar"
        /\ ~is_contiguous(var.layout) => last_err = "CannotSetVar"
        /\ var.layout.shape # src.layout.shape => last_err = "ShapeMismatchBinaryOp{set}"
        /\ last_err # "Ok" => var_data = prev.data

\* C9 (amended): the three tests run in this order, so the shape mismatch is
\* reported only when src does not share the variable's storage and the
\* variable is contiguous; no failing call (these three, a device mismatch or
\* a dtype mismatch of the copy) writes the storage.
C9_SetFailures ==
    SetEnded =>
        /\ same_storage(var, src) => last_err = "CannotSetVar"
        /\ ~is_contiguous(var.layout) => last_err = "CannotSetVar"
        /\ (var.layout.shape # src.layout.shape /\ ~same_storage(var, src)
               /\ is_contiguous(var.layout))
              => last_err = "ShapeMismatchBinaryOp{set}"
        /\ last_err # "Ok" => var_data = prev.data

\* C9 witness: after a first set() has written the variable, a second one with
\* a tensor of another shape over its own storage fails with the shape
\* mismatch and leaves the content as it was.
C9_Witness ==
    /\ last_err = "ShapeMismatchBinaryOp{set}"
    /\ ~same_storage(var, src)
    /\ var.layout.shape # src.layout.shape
    /\ calls = 2
    /\ var_data = prev.data
    /\ var_data # [i \in 1..4 |-> 0]

\* C10: a successful Var::set(src) makes the content of the variable's
\* existing storage equal to src's elements in logical order and changes
\* nothing else: id, storage identity, layout, is_variable and op are as
\* before, no storage is allocated and no op is recorded; this holds after any
\* sequence of set calls.
C10_SetWritesOnlyContent ==
    /\ last_err = "Ok" =>
          /\ var_data = logical_elements(SrcData, src.layout)
          /\ Len(var_data) = Len(prev.data)
          /\ var = prev.var
          /\ n_alloc = prev.n_alloc
    /\ var.id # 0 =>
          /\ var.id = 1
          /\ var.storage = 1
          /\ var.is_variable
          /\ var.op = NoOp
          /\ is_contiguous(var.layout)

\* C10 witness: the second of two successful set() calls, with a transposed
\* source, has replaced the content written by the first.
C10_Witness ==
    /\ last_err = "Ok"
    /\ calls = 2
    /\ src.layout.stride = <<1, 2>>
    /\ var_data # prev.data
    /\ prev.data # [i \in 1..4 |-> 0]

\* The Storage calls that take two input storages.
TwoInputCalls == {"binary_impl", "cmp", "matmul", "conv1d", "conv2d", "index_select"}

\* C11: for binary_impl, cmp, matmul, conv1d, conv2d and index_select, when
\* the two input storages are on different backends or device locations the
\* call returns Err(DeviceMismatchBinaryOp) and no output storage, also when
\* the dtypes differ as well: the device check precedes the dtype check.
C11_DeviceMismatchFirst ==
    (res.call \in TwoInputCalls /\ location(stores[1]) # location(stores[2])) =>
        /\ res.tag = "Err"
        /\ res.err = "DeviceMismatchBinaryOp"
        /\ res.out = NoStorage

\* C11 witness: matmul of two Cuda storages on different gpus whose dtypes
\* differ too has returned the device mismatch.
C11_Witness ==
    /\ res.call = "matmul"
    /\ stores[1].backend = "Cuda"
    /\ stores[2].backend = "Cuda"
    /\ stores[1].gpu_id # stores[2].gpu_id
    /\ stores[1].dtype # stores[2].dtype
    /\ res.tag = "Err"
    /\ res.err = "DeviceMismatchBinaryOp"
    /\ res.out = NoStorage

ListedCustom == {n \in Range(ret.nodes) : OpOf(n) \in CustomKinds}

\* The positions of the inputs of custom node n for which its bwd gave None.
NonePositions(n) == {i \in 1..Len(tensors[n].args) : tensors[n].bwd.opt[i] = "None"}

\* C12 (as claimed): for CustomOp1/2/3 nodes whose bwd returns Ok, backward()
\* continues to completion, the Some gradients are accumulated (every returned
\* gradient of a variable is the sum over the paths through Some inputs), and
\* a variable that is an input of listed nodes only at positions whose bwd
\* result is None gets no gradient entry.
C12_CustomNoneSkipped ==
    (Called /\ ListedCustom # {} /\ \A n \in ListedCustom : tensors[n].bwd.tag = "Ok") =>
        /\ ret.tag = "Ok"
        /\ \A x \in DOMAIN ret.grads :
              is_variable(x) => ret.grads[x] = PathSum(ret.root, x)
        /\ \A x \in Ids :
              (/\ is_variable(x)
               /\ x # ret.root
               /\ \A c \in Range(ret.nodes) :
                     \A i \in 1..Len(tensors[c].args) :
                         tensors[c].args[i] = x =>
                             (c \in ListedCustom /\ i \in NonePositions(c)))
                  => x \notin DOMAIN ret.grads

\* The storages a custom_op call was made on.
CustomInputs ==
    CASE res.call = "custom_op1" -> {stores[1]}
      [] res.call = "custom_op2" -> {stores[1], stores[2]}
      [] res.call = "custom_op3" -> {stores[1], stores[2], stores[3]}
      [] OTHER -> {}

AllCpu == \A s \in CustomInputs : s.backend = "Cpu"

AllCuda == \A s \in CustomInputs : s.backend = "Cuda"

OneLocation == \A s, t \in CustomInputs : location(s) = location(t)

\* C13 (as claimed): custom_op1/2/3 call the op's cpu_fwd when all inputs are
\* Cpu storages and its cuda_fwd when all are Cuda storages; for an op that
\* does not override cuda_fwd, dispatch on Cuda storages returns an Err that
\* names the op and no output.
C13_CustomDispatchAsClaimed ==
    CustomInputs # {} =>
        /\ AllCpu => res.fwd = "cpu_fwd"
        /\ AllCuda => res.fwd = "cuda_fwd"
        /\ (AllCuda /\ ~cop.has_cuda_fwd) =>
              (res.tag = "Err" /\ res.op = cop.name /\ res.out = NoStorage)

\* C13 (amended): cuda_fwd is called when all inputs are Cuda storages at one
\* device location; Cuda storages on different gpus are refused by
\* same_device with Err(DeviceMismatchBinaryOp) naming the op, and no forward
\* is called.  The rest is as claimed.
C13_CustomDispatch ==
    CustomInputs # {} =>
        /\ AllCpu => res.fwd = "cpu_fwd"
        /\ (AllCuda /\ OneLocation) => res.fwd = "cuda_fwd"
        /\ (AllCuda /\ ~OneLocation) =>
              (res.tag = "Err" /\ res.err = "DeviceMismatchBinaryOp" /\ res.fwd = "none")
        /\ (AllCuda /\ ~cop.has_cuda_fwd) =>
              (res.tag = "Err" /\ res.op = cop.name /\ res.out = NoStorage)

\* C13 witness: custom_op3 on three Cuda storages of gpu 1 with an op that has
\* no cuda_fwd has returned the default error naming the op.
C13_Witness ==
    /\ res.call = "custom_op3"
    /\ \A s \in CustomInputs : location(s) = <<"Cuda", 1>>
    /\ ~cop.has_cuda_fwd
    /\ cop.name = "op-b"
    /\ res.fwd = "cuda_fwd"
    /\ res.tag = "Err"
    /\ res.err = "Cuda"
    /\ res.op = "op-b"
    /\ res.out = NoStorage

\* The outcome of from_raw_buffer on the same bytes in a buffer at address 0,
\* which is aligned for every dtype.
AlignedOutcome ==
    CHOOSE r \in convert_slice([buf EXCEPT !.addr = 0], loaded.dtype, loaded.shape) : TRUE

\* C14 (as claimed): from_raw_buffer never reads a buffer in place as typed
\* elements when its address is not a multiple of the dtype's byte size: it
\* copies the bytes into a new aligned buffer of len/size elements, and the
\* call ends with the same result (the same tensor elements, or the same
\* error) as for an aligned buffer holding the same bytes.
C14_UnalignedCopied ==
    loaded.tag # "none" =>
        /\ buf.addr % size_in_bytes(loaded.dtype) # 0 => loaded.path = "copied"
        /\ loaded.tag = AlignedOutcome.tag
        /\ loaded.tag = "Ok" => loaded.tensor = AlignedOutcome.tensor

\* C15: round trip.  The bytes convert_back gives for a tensor, handed to
\* from_raw_buffer with the tensor's dtype and shape (at the address of the
\* Vec or at any other), give a tensor with the same dtype, shape and
\* elements, for each of the six dtypes; load after save returns every tensor
\* of the map under its name with the same dims, dtype and elements.
C15_RoundTrip ==
    /\ (loaded.tag # "none" /\ buf.from = "tensor") =>
          /\ loaded.tag = "Ok"
          /\ loaded.tensor = tmap["t"]
    /\ weights.tag # "none" =>
          /\ weights.tag = "Ok"
          /\ DOMAIN weights.tensors = DOMAIN tmap
          /\ \A n \in DOMAIN tmap :
                /\ weights.tensors[n].tensor.shape = tmap[n].shape
                /\ weights.tensors[n].tensor = tmap[n]

\* C15 witness: the bytes of an F64 tensor of shape (1, 2) with two different
\* elements, moved to an address that is not a multiple of 8, have been
\* rebuilt into the same tensor.
C15_Witness ==
    /\ buf.from = "tensor"
    /\ buf.addr = 4
    /\ tmap["t"].dtype = "F64"
    /\ tmap["t"].shape = <<1, 2>>
    /\ tmap["t"].elems[1] = <<1, 2, 3, 4, 5, 6, 7, 8>>
    /\ tmap["t"].elems[2] = <<0, 0, 0, 0, 0, 0, 0, 1>>
    /\ loaded.tag = "Ok"
    /\ loaded.path = "copied"
    /\ loaded.tensor = tmap["t"]

\* C16: par_for_each and par_range are fork-join: once the call has returned,
\* every invocation of func that was started has finished, and no spawned
\* task is running or still to start.
C16_ForkJoin ==
    pc = "returned" =>
        /\ finished = Len(invoked)
        /\ Len(task) = (IF pcall.n_threads = 1 THEN 0 ELSE pcall.n_threads)
        /\ \A t \in DOMAIN task : task[t].state = "done"

\* par_range has returned after two tasks invoked func.
C16_Witness ==
    /\ pc = "returned"
    /\ pcall.fn = "par_range"
    /\ Len(task) = 2
    /\ Len(invoked) = 2
    /\ \A t \in DOMAIN task : task[t].state = "done"

\* C17: Binary Add, Sub and Mul on U8 and U32 elements, and the default
\* vec_dot and vec_reduce_sum on U8 and U32, end with the result reduced
\* modulo 2^8 or 2^32 on overflow and underflow, and never fail.
C17_IntegerOpsWrap ==
    aout.fn # "none" =>
        /\ aout.tag = "Ok"
        /\ aout.fn \in {"add", "sub", "mul"} =>
              /\ aout.value = wrapping(aout.fn, ain.lhs[1], ain.rhs[1]).wrapped
              /\ ain.dtype = "U8" =>
                    aout.value[1] =
                        CASE aout.fn = "add" -> (ain.lhs[1][1] + ain.rhs[1][1]) % 256
                          [] aout.fn = "sub" -> (ain.lhs[1][1] - ain.rhs[1][1] + 256) % 256
                          [] aout.fn = "mul" -> (ain.lhs[1][1] * ain.rhs[1][1]) % 256
        /\ aout.fn = "vec_dot" =>
              aout = vec_dot(ain.dtype, ain.lhs, ain.rhs, FALSE) @@ [fn |-> "vec_dot"]
        /\ aout.fn = "vec_reduce_sum" =>
              aout = vec_reduce_sum(ain.dtype, ain.lhs, FALSE)
                         @@ [fn |-> "vec_reduce_sum"]

\* C18: applying Exp, Log, Sin, Cos, Abs, Neg, Recip, Sqr or Sqrt to the
\* elements of a U8 or U32 storage on the Cpu ends with a returned error and
\* does not panic.
C18_IntegerUnaryIsError ==
    /\ res.call = "unary_impl"
    /\ res.op \in MacroUnaryNames
    /\ stores[1].backend = "Cpu"
    /\ stores[1].dtype \in {"U8", "U32"}
    /\ stores[1].len > 0
    => res.tag = "Err"

\* C19: backward() through a ToDType node whose dtype differs from its
\* input's ends without a dtype mismatch: the gradient of the node is added
\* to the input's gradient in the input's dtype.
C19_CastGradientAdded ==
    \A n \in Range(ret.processed) :
        tensors[n].op = "ToDType" /\ tensors[tensors[n].args[1]].dtype # tensors[n].dtype
        => /\ ret.err # "DTypeMismatchBinaryOp"
           /\ ret.tag = "Ok" => tensors[n].args[1] \in DOMAIN ret.grads

\* C20: QMatMul::cpu_fwd returns an error and no output when the input layout
\* is not contiguous, when its rank is below 2 or when its last dimension is
\* not the K of the stored (K, N) weight; otherwise the output is F32 with
\* the input's shape where the last dimension is replaced by N.
C20_QMatMulForward ==
    qout.tag # "none" =>
        LET shape == qin.layout.shape
        IN  IF \/ ~is_contiguous(qin.layout)
               \/ Len(shape) < 2
               \/ shape[Len(shape)] # qin.weight[1]
            THEN qout.tag = "Err" /\ qout.shape = <<>>
            ELSE /\ qout.tag = "Ok"
                 /\ qout.dtype = "F32"
                 /\ qout.shape = SubSeq(shape, 1, Len(shape) - 1) \o <<qin.weight[2]>>

\* C21: sorted_nodes lists each tensor id at most once and walks past the
\* lookup in already_seen at most once for each tensor, also when a tensor
\* is reached from the root by several paths.
C21_VisitedOnce ==
    ret.tag # "none" =>
        /\ \A i, j \in DOMAIN ret.nodes : ret.nodes[i] = ret.nodes[j] => i = j
        /\ \A i, j \in DOMAIN ret.visits : ret.visits[i] = ret.visits[j] => i = j

\* backward() has run on a graph where a listed tensor is an input of the
\* walked nodes at two places.
C21_Witness ==
    /\ ret.tag # "none"
    /\ \E t \in Range(ret.nodes) :
          Cardinality({pi \in Range(ret.visits) \X (1..3) :
                          /\ pi[2] \in DOMAIN WalkedInputs(pi[1])
                          /\ ~is_variable(pi[1])
                          /\ WalkedInputs(pi[1])[pi[2]] = t}) >= 2

\* C22: a visited node that is no variable is in the sorted list exactly
\* when a variable is reachable from it through op inputs, not passing
\* through variables nor from an Affine node with mul == 0 to its arg; every
\* visited variable is in the list; a tensor that has no op and is no
\* variable is never in the list.
C22_ListedIffTracked ==
    ret.tag # "none" =>
        /\ \A n \in Range(ret.visits) :
              IF is_variable(n) THEN n \in Range(ret.nodes)
              ELSE n \in Range(ret.nodes) <=> \E v \in ReachPruned(n) : is_variable(v)
        /\ \A n \in Range(ret.nodes) : is_variable(n) \/ tensors[n].op # NoOp

\* backward() has run on a graph where one visited node with an op is
\* listed, another visited node with an op is not, and a variable is listed.
C22_Witness ==
    /\ ret.tag # "none"
    /\ \E n, m, v \in Range(ret.visits) :
          /\ ~is_variable(n) /\ tensors[n].op # NoOp /\ n \in Range(ret.nodes)
          /\ ~is_variable(m) /\ tensors[m].op # NoOp /\ m \notin Range(ret.nodes)
          /\ is_variable(v) /\ v \in Range(ret.nodes)

RECURSIVE LeafReach(_)
\* The tensors reachable from n through the op inputs of the tensors whose
\* variable flag is not set.
LeafReach(n) ==
    {n} \cup (IF tensors[n].is_variable
              THEN {}
              ELSE UNION {LeafReach(a) : a \in Range(tensors[n].args)})

\* C23: variables are leaves of the backward pass. sorted_nodes visits no
\* tensor through the op inputs of a variable, backward() adds nothing to a
\* tensor that is reached through a variable only, and the gradient of a
\* variable is not removed: a variable that is the root or an input of a
\* processed Add, Sub or Copy is in the returned GradStore.
C23_VariablesAreLeaves ==
    ret.tag # "none" =>
        /\ Range(ret.visits) \subseteq LeafReach(ret.root)
        /\ \A v \in Range(ret.nodes) :
              tensors[v].is_variable =>
                  /\ v \notin Range(ret.processed)
                  /\ (/\ ret.tag = "Ok"
                      /\ \/ v = ret.root
                         \/ \E c \in Range(ret.processed) :
                               /\ v \in Range(tensors[c].args)
                               /\ tensors[c].op \in {"Add", "Sub", "Copy"})
                     => v \in DOMAIN ret.grads
        /\ ret.tag = "Ok" => DOMAIN ret.grads \subseteq LeafReach(ret.root)

\* backward() has returned Ok from a root above a variable that has an op,
\* and an input of that op has no gradient.
C23_Witness ==
    /\ ret.tag = "Ok"
    /\ \E v \in Range(ret.nodes) :
          /\ tensors[v].is_variable
          /\ tensors[v].op # NoOp
          /\ v # ret.root
          /\ v \in DOMAIN ret.grads
          /\ \E a \in Range(tensors[v].args) : a \notin DOMAIN ret.grads

RECURSIVE ExtentSum(_, _, _)
\* The sum of the extents along dim of the first n shapes.
ExtentSum(shapes, dim, n) ==
    IF n = 0 THEN 0 ELSE shapes[n][dim] + ExtentSum(shapes, dim, n - 1)

\* The gradient of the node is the one with a different element at every
\* index, and the all-ones one.
Labelled == \A idx \in Indices(arm_in.grad.dims) :
                arm_in.grad.at[idx] = 2 ^ flat_index(idx, arm_in.grad.dims)

AllOnes(t) == \A idx \in Indices(t.dims) : t.at[idx] = 1

\* The indexes of the node's gradient whose element the tensor holds.
Received(t) ==
    {gidx \in Indices(arm_in.grad.dims) :
        \E idx \in Indices(t.dims) : t.at[idx] = arm_in.grad.at[gidx]}

\* C24: the Cat arm gives the i-th input the slice of the node's gradient
\* along dim that starts at the sum of the extents of the inputs before it
\* and has the input's extent; the slices are pairwise disjoint and cover
\* the gradient, and an all-ones gradient gives every input all ones of its
\* own shape.
C24_CatSlices ==
    arm_in.op = "Cat" =>
        /\ Len(arm_out) = Len(arm_in.args)
        /\ \A i \in DOMAIN arm_in.args :
              /\ DOMAIN arm_out[i] = {"dims", "at"}
              /\ arm_out[i].dims = arm_in.args[i]
              /\ \A idx \in Indices(arm_in.args[i]) :
                    arm_out[i].at[idx] =
                        arm_in.grad.at[[idx EXCEPT ![arm_in.dim] =
                            @ + ExtentSum(arm_in.args, arm_in.dim, i - 1)]]
              /\ AllOnes(arm_in.grad) => AllOnes(arm_out[i])
        /\ Labelled =>
              /\ \A i, j \in DOMAIN arm_in.args :
                    i # j => Received(arm_out[i]) \cap Received(arm_out[j]) = {}
              /\ UNION {Received(arm_out[i]) : i \in DOMAIN arm_in.args}
                    = Indices(arm_in.grad.dims)

\* The arm has run on a Cat of two inputs of different extents along the
\* second of two dims.
C24_Witness ==
    /\ arm_in.op = "Cat"
    /\ Len(arm_in.args) = 2
    /\ arm_in.dim = 2
    /\ arm_in.args[1][2] # arm_in.args[2][2]
    /\ Labelled
    /\ arm_out[2].at[<<0, 0>>] = arm_in.grad.at[<<0, arm_in.args[1][2]>>]

\* C25: the Narrow arm gives the input a gradient of the input's own shape
\* that holds the node's gradient at the positions start_idx .. start_idx +
\* len - 1 along dim and zero before and after them; a side without
\* positions adds no padding tensor to the concatenation.
C25_NarrowPads ==
    arm_in.op = "Narrow" =>
        LET lo == arm_in.start_idx
            hi == arm_in.start_idx + arm_in.len
            sides == {s \in {"left", "right"} :
                         \/ s = "left" /\ lo # 0
                         \/ s = "right" /\ hi # arm_in.arg[arm_in.dim]}
        IN  /\ DOMAIN arm_out.sum_grad = {"dims", "at"}
            /\ arm_out.sum_grad.dims = arm_in.arg
            /\ \A idx \in Indices(arm_in.arg) :
                  arm_out.sum_grad.at[idx] =
                      IF lo <= idx[arm_in.dim] /\ idx[arm_in.dim] < hi
                      THEN arm_in.grad.at[[idx EXCEPT ![arm_in.dim] = @ - lo]]
                      ELSE 0
            /\ Len(arm_out.pieces) = 1 + Cardinality(sides)
            /\ \A i \in DOMAIN arm_out.pieces :
                  arm_out.pieces[i].dims[arm_in.dim] > 0

\* The arm has run on a slice of one position in the middle of three along
\* the second of two dims: a padding on both sides.
C25_Witness ==
    /\ arm_in.op = "Narrow"
    /\ arm_in.dim = 2
    /\ arm_in.arg[2] = 3
    /\ arm_in.start_idx = 1
    /\ arm_in.len = 1
    /\ Len(arm_out.pieces) = 3
    /\ Labelled
    /\ arm_out.sum_grad.at[<<0, 1>>] = 1
    /\ arm_out.sum_grad.at[<<0, 0>>] = 0

\* The index of the input that the node of a Broadcast reads at the index
\* nidx: the inserted leading dims are dropped and a dim of one position is
\* read at position 0.
BroadcastSource(nidx) ==
    LET left_dims == Len(arm_in.grad.dims) - Len(arm_in.arg)
    IN  [d \in DOMAIN arm_in.arg |->
            IF arm_in.arg[d] = 1 THEN 0 ELSE nidx[d + left_dims]]

RECURSIVE GradSum(_)
\* The sum of the node's gradient over a set of indexes.
GradSum(nidxs) ==
    IF nidxs = {} THEN 0
    ELSE LET nidx == CHOOSE n \in nidxs : TRUE
         IN  arm_in.grad.at[nidx] + GradSum(nidxs \ {nidx})

\* C26: the Broadcast arm gives the input a gradient of the input's own
\* shape in which every element is the sum of the node's gradient over the
\* indexes of the node that read that element.
C26_BroadcastSums ==
    arm_in.op = "Broadcast" =>
        /\ DOMAIN arm_out = {"dims", "at"}
        /\ arm_out.dims = arm_in.arg
        /\ \A idx \in Indices(arm_in.arg) :
              arm_out.at[idx] =
                  GradSum({nidx \in Indices(arm_in.grad.dims) :
                              BroadcastSource(nidx) = idx})

\* The arm has run on an input of one dim of one position broadcast to two
\* dims of two positions: the element receives the whole gradient.
C26_Witness ==
    /\ arm_in.op = "Broadcast"
    /\ arm_in.arg = <<1>>
    /\ arm_in.grad.dims = <<2, 2>>
    /\ Labelled
    /\ arm_out.at[<<0>>] = 1 + 2 + 4 + 8

\* C27: the Abs arm gives the input the node's gradient multiplied element by
\* element by the sign tensor it computed, which is +1 where x >= 0 and -1
\* where x < 0, that is 2 * (x >= 0) - 1.
C27_AbsSign ==
    arm_in.op = "Abs" =>
        /\ DOMAIN arm_out.sum_grad = {"dims", "at"}
        /\ arm_out.sum_grad.dims = arm_in.x.dims
        /\ arm_out.abs_grad.dims = arm_in.x.dims
        /\ \A idx \in Indices(arm_in.x.dims) :
              LET nonneg == IF arm_in.x.at[idx] >= 0 THEN 1 ELSE 0
              IN  /\ arm_in.x.at[idx] >= 0 => arm_out.abs_grad.at[idx] = 1
                  /\ arm_in.x.at[idx] < 0 => arm_out.abs_grad.at[idx] = 0 - 1
                  /\ arm_out.sum_grad.at[idx]
                        = arm_in.grad.at[idx] * arm_out.abs_grad.at[idx]
                  /\ arm_out.sum_grad.at[idx]
                        = arm_in.grad.at[idx] * (2 * nonneg - 1)

\* The arm has run on an input with a negative and a zero element: the first
\* gets the gradient negated, the second gets it as it is.
C27_Witness ==
    /\ arm_in.op = "Abs"
    /\ arm_in.x.dims = <<2>>
    /\ arm_in.x.at[<<0>>] < 0
    /\ arm_in.x.at[<<1>>] = 0
    /\ Labelled
    /\ arm_out.sum_grad.at[<<0>>] = 0 - 1
    /\ arm_out.sum_grad.at[<<1>>] = 2

\* C28 (as claimed): par_range(lo, up, n_threads, f) with n_threads >= 1
\* calls f once for every index i with lo <= i < up and for no other index:
\* under every interleaving no call of f has an index outside lo .. up - 1,
\* no index is used by two calls, and when par_range returns every index of
\* lo .. up - 1 has been used, as in the sequential case.
C28_RangeCalls ==
    (pcall.fn = "par_range" /\ pcall.n_threads >= 1) =>
        /\ \A k \in DOMAIN invoked :
              pcall.lo <= invoked[k] /\ invoked[k] < pcall.up
        /\ \A k, l \in DOMAIN invoked : invoked[k] = invoked[l] => k = l
        /\ pc = "returned" =>
              Range(invoked) = Range(inline_args([pcall EXCEPT !.n_threads = 1]))

\* The calls of get() that have returned Ok.
Succeeded == {t \in 1..MaxThreads :
                 getter[t].pc = "returned" /\ getter[t].ret.tag = "Ok"}

\* The Vars created for a path: the ones inserted under it and the ones a
\* call for it holds before its insertion.
CreatedFor(path) ==
    {inserted[k].id : k \in {j \in DOMAIN inserted : inserted[j].path = path}}
    \cup {getter[t].id : t \in {u \in 1..MaxThreads :
                                  getter[u].pc = "insert" /\ getter[u].path = path}}

\* C29: VarMap::get is an atomic get-or-create under every interleaving of
\* the calls: at most one Var is created and stored for a path, every call
\* that succeeds returns a tensor of the Var stored under its path, a call
\* whose shape differs from the stored Var's shape has failed, no step
\* replaces or removes an entry of the map, and a step that ends a call with
\* an error leaves the map as it is.
C29_AtomicGetOrCreate ==
    /\ [](/\ \A path \in {"weight", "bias"} :
                /\ Cardinality(CreatedFor(path)) <= 1
                /\ Cardinality({k \in DOMAIN inserted : inserted[k].path = path}) <= 1
          /\ \A t \in Succeeded :
                /\ getter[t].path \in DOMAIN tensor_data
                /\ getter[t].ret.id = tensor_data[getter[t].path].id
          /\ \A t \in 1..MaxThreads :
                (/\ getter[t].pc = "returned"
                 /\ getter[t].path \in DOMAIN tensor_data
                 /\ tensor_data[getter[t].path].shape # getter[t].shape)
                    => getter[t].ret.tag = "Err")
    /\ [][/\ \A path \in DOMAIN tensor_data :
                path \in DOMAIN tensor_data' /\ tensor_data'[path] = tensor_data[path]
          /\ \A t \in 1..MaxThreads :
                (/\ getter[t].pc # "returned"
                 /\ getter'[t].pc = "returned"
                 /\ getter'[t].ret.tag = "Err") => tensor_data' = tensor_data]_vars

\* Two calls for the same path with the same shape have both returned Ok
\* with the one Var that was created, while a call could have raced.
C29_Witness ==
    /\ Succeeded = {1, 2}
    /\ getter[1].path = getter[2].path
    /\ getter[1].ret.id = getter[2].ret.id
    /\ n_vars = 1
    /\ Len(inserted) = 1

\* The storages a call of the dispatch part reads: two of them for
\* custom_op2 and gather, the three of them for the other calls of C30.
InputsOf(call) ==
    IF call \in {"custom_op2", "gather"} THEN {stores[1], stores[2]}
    ELSE {stores[1], stores[2], stores[3]}

\* C30: no call of custom_op2, custom_op3, gather, scatter_add or index_add
\* ends in the unreachable!() arm of its match: a call that got past the
\* same_device checks has its input storages all Cpu or all Cuda.
C30_UnreachableNeverRun ==
    res.call \in {"custom_op2", "custom_op3", "gather", "scatter_add", "index_add"} =>
        /\ res.tag # "Panic"
        /\ res.err # "DeviceMismatchBinaryOp" =>
              \/ \A s \in InputsOf(res.call) : s.backend = "Cpu"
              \/ \A s \in InputsOf(res.call) : s.backend = "Cuda"

\* index_add has run on three Cuda storages of the same gpu and returned a
\* storage.
C30_Witness ==
    /\ res.call = "index_add"
    /\ res.tag = "Ok"
    /\ \A i \in 1..3 : stores[i].backend = "Cuda" /\ stores[i].gpu_id = 1
    /\ res.out.backend = "Cuda"

====
